---- MODULE Spec2Model ----
(***************************************************************************)
(* Discovery / enrichment / de-duplication pipeline of the paper search    *)
(* backend (backend/app/routers/search_paper.py,                           *)
(* backend/app/service/research_service.py and                             *)
(* backend/app/routers/fetch_data.py).                                     *)
(*                                                                         *)
(* Conventions                                                             *)
(*   - Python None of a numeric field is the empty tuple <<>>, a present   *)
(*     number v is <<v>>; None of a string field is the string "None".     *)
(*   - Quality-score terms are fixed-point numbers in units of 1/10000 of  *)
(*     a point; round(score, 2) gives hundredths of a point.               *)
(*   - Times are integer milliseconds.                                     *)
(***************************************************************************)
EXTENDS Integers, Sequences, FiniteSets, Bags, TLC

VARIABLES
    \* ---- quality scorer (pure functions) ----
    paper,          \* the Paper dict handed to the scorers
    current_year,   \* datetime.now().year
    quality         \* <<>> before scoring, else <<[sp |-> .., rs |-> ..]>>

scoreVars == <<paper, current_year, quality>>

VARIABLES
    \* ---- Crossref enrichment (enrich_paper_with_crossref) ----
    tasks,          \* bag of the states of the enrichment coroutines created
                    \* by asyncio.gather (coroutines in equal states are alike)
    semaphore,      \* value of the module-level asyncio.Semaphore
    crossref_seen,  \* last_request_time["crossref"] is not None
    failures_left   \* failing responses the stub source may still serve

fetchVars == <<tasks, semaphore, crossref_seen, failures_left>>

VARIABLES
    \* ---- rate governor (rate_limit_delay / _rate_limit_delay) ----
    module,             \* whose governor runs: "search_paper" or "research_service"
    clock,              \* datetime.now(), in ms
    last_request_time,  \* the module-level dict: source name -> None or time
    callers,            \* the coroutines that call the governor
    released            \* per source, the times at which calls returned

rateVars == <<module, clock, last_request_time, callers, released>>

VARIABLES
    \* ---- orchestrator (discover_and_process_multi) ----
    pipelines,      \* per keyword, its _runner / discover_and_process_single
    kw_sem,         \* value of the kw_sem semaphore
    all_results,    \* the list the keyword results are collected into
    dedup,          \* the dict, as its [key, paper] items in insertion order
    merged_results, \* list(dedup.values())
    mpc,            \* where discover_and_process_multi is
    works_left      \* works the stub primary source may still serve

multiVars == <<pipelines, kw_sem, all_results, dedup, merged_results, mpc,
               works_left>>

VARIABLES
    \* ---- per-page and per-abstract functions, taken on their own ----
    discovered_works,        \* payload["results"] of one fetched page
    crossref_metadata_list,  \* what asyncio.gather returned for its works
    results,                 \* the Papers appended for the page
    page_done,               \* the `for work, crossref_meta` loop has run
    inverted_index,          \* the argument of deconstruct_abstract
    abstract_text,           \* <<>> before the call, else <<its outcome>>
    query,                   \* the argument of split_keywords
    keywords                 \* <<>> before the call, else <<the list returned>>

pureVars == <<discovered_works, crossref_metadata_list, results, page_done,
              inverted_index, abstract_text, query, keywords>>

vars == <<scoreVars, pureVars, fetchVars, rateVars, multiVars>>

None == <<>>
Some(v) == <<v>>
IsNone(o) == o = <<>>
Val(o) == o[1]
NoneStr == "None"

Min(a, b) == IF a <= b THEN a ELSE b
Max(a, b) == IF a >= b THEN a ELSE b

(***************************************************************************)
(* Quality scorer                                                          *)
(***************************************************************************)

\* Bounds of the scorer's input space.
ThisYear == 2026
MaxAge == 7
MaxAhead == 8

SjrValues == {0, 1, 3, 1000}
HIndexValues == {0, 100, 200, 1000}
QuartileValues == {NoneStr, "Q1", "Q2", "Q3", "Q4", "q1", "Q9"}
CitationValues == {0, 1, 9, 999, 9999}
YearValues == (ThisYear - MaxAge)..(ThisYear + MaxAhead)

\* 40.0 * (1 - math.exp(-sjr / 3.0)) in 1/10000 points, tabulated on SjrValues
\* (IEEE doubles: the value for 1000 is exactly 40.0).
SjrSaturation(sjr) ==
    CASE sjr = 0 -> 0
      [] sjr = 1 -> 113387
      [] sjr = 3 -> 252848
      [] OTHER   -> 400000

\* math.log10(cites + 1) * 10.0 in 1/10000 points, tabulated on CitationValues
\* and on the citation counts of the stub works.
Log10Times10(cites) ==
    CASE cites = 0    -> 0
      [] cites = 1    -> 30103
      [] cites = 9    -> 100000
      [] cites = 99   -> 200000
      [] cites = 999  -> 300000
      [] cites = 9999 -> 400000

\* str.upper() on the quartile labels of QuartileValues.
Upper(q) == IF q = "q1" THEN "Q1" ELSE q

\* quartile_scores.get(q, 0), in 1/10000 points.
QuartileScore(q) ==
    CASE q = "Q1" -> 200000
      [] q = "Q2" -> 150000
      [] q = "Q3" -> 100000
      [] q = "Q4" -> 50000
      [] OTHER    -> 0

\* round(score, 2): 1/10000 points to hundredths of a point.
Round2(x) == IF x >= 0 THEN (x + 50) \div 100 ELSE -((50 - x) \div 100)

\* The recency term of both scorers: added when years_old <= 5.
RecencyTerm(year, cur) ==
    LET years_old == cur - year
    IN  IF years_old <= 5 THEN Max(10 - (years_old * 2), 0) * 10000 ELSE 0

\* search_paper.py calculate_quality_score
calculate_quality_score(p, cur) ==
    LET sjr   == IF IsNone(p.sjrScore) THEN 0
                 ELSE Min(400000, SjrSaturation(Val(p.sjrScore)))
        h     == IF IsNone(p.h_index) THEN 0
                 ELSE Min(300000, (300000 * Min(Val(p.h_index), 200)) \div 200)
        q     == IF p.quartile = NoneStr THEN 0 ELSE QuartileScore(Upper(p.quartile))
        cites == IF p.citationCount > 0
                 THEN Min(300000, Log10Times10(p.citationCount)) ELSE 0
        rec   == IF IsNone(p.yearPublished) THEN 0
                 ELSE RecencyTerm(Val(p.yearPublished), cur)
        oa    == IF p.isFreelyAvailable THEN 50000 ELSE 0
        abs   == IF p.abstract THEN 50000 ELSE 0
    IN  Round2(sjr + h + q + cites + rec + oa + abs)

\* research_service.py calc_quality_score (truthiness tests, linear SJR term)
calc_quality_score(p, cur) ==
    LET sjr   == IF IsNone(p.sjrScore) \/ p.sjrScore = Some(0) THEN 0
                 ELSE Min(Val(p.sjrScore) * 10 * 10000, 400000)
        h     == IF IsNone(p.h_index) \/ p.h_index = Some(0) THEN 0
                 ELSE Min((Val(p.h_index) * 10000) \div 5, 300000)
        q     == IF p.quartile = NoneStr THEN 0 ELSE QuartileScore(p.quartile)
        cites == IF p.citationCount > 0
                 THEN Min(Log10Times10(p.citationCount), 300000) ELSE 0
        rec   == IF IsNone(p.yearPublished) \/ p.yearPublished = Some(0) THEN 0
                 ELSE RecencyTerm(Val(p.yearPublished), cur)
        oa    == IF p.isFreelyAvailable THEN 50000 ELSE 0
        abs   == IF p.abstract THEN 50000 ELSE 0
    IN  Round2(sjr + h + q + cites + rec + oa + abs)

Opt(S) == {None} \cup {Some(v) : v \in S}

ScoreInputs ==
    [sjrScore : Opt(SjrValues), h_index : Opt(HIndexValues),
     quartile : QuartileValues, citationCount : CitationValues,
     yearPublished : Opt(YearValues),
     isFreelyAvailable : BOOLEAN, abstract : BOOLEAN]

IdleScore == paper = None /\ current_year = ThisYear /\ quality = None
IdlePure ==
    /\ discovered_works = <<>> /\ crossref_metadata_list = <<>>
    /\ results = <<>> /\ page_done = FALSE
    /\ inverted_index = <<>> /\ abstract_text = <<>>
    /\ query = <<>> /\ keywords = <<>>

IdleFetch ==
    tasks = EmptyBag /\ semaphore = 0 /\ crossref_seen = FALSE /\ failures_left = 0

IdleRate ==
    /\ module = "search_paper" /\ clock = 0 /\ callers = <<>>
    /\ last_request_time = <<>> /\ released = <<>>

IdleMulti ==
    /\ pipelines = <<>> /\ kw_sem = 0 /\ all_results = <<>> /\ dedup = <<>>
    /\ merged_results = <<>> /\ mpc = "idle" /\ works_left = 0

InitScore ==
    /\ paper \in ScoreInputs
    /\ current_year = ThisYear
    /\ quality = None
    /\ IdlePure
    /\ IdleFetch
    /\ IdleRate
    /\ IdleMulti

ScorePaper ==
    /\ quality = None
    /\ quality' = Some([sp |-> calculate_quality_score(paper, current_year),
                        rs |-> calc_quality_score(paper, current_year)])
    /\ UNCHANGED <<paper, current_year, pureVars, fetchVars, rateVars, multiVars>>

NextScore == ScorePaper

SpecScore == InitScore /\ [][NextScore]_vars

\* C3: for every Paper record both scorers return a value in [0, 150]
\* (0..15000 hundredths), whatever the publication year.
C3_ScoreInRange ==
    quality # None =>
        /\ 0 <= Val(quality).sp /\ Val(quality).sp <= 15000
        /\ 0 <= Val(quality).rs /\ Val(quality).rs <= 15000

\* The score without the recency term: the score of the same Paper with no
\* publication year.
Undated(p) == [p EXCEPT !.yearPublished = None]

\* What the publication year contributes to each score, in hundredths.
RecencyOfSp ==
    Val(quality).sp - calculate_quality_score(Undated(paper), current_year)
RecencyOfRs ==
    Val(quality).rs - calc_quality_score(Undated(paper), current_year)

\* max(10 - 2*age, 0) for a paper at most 5 years old and 0 otherwise, with
\* an upper limit of 10, in hundredths.
ClaimedRecency(year, cur) ==
    IF cur - year <= 5 THEN Min(Max(10 - 2 * (cur - year), 0), 10) * 100 ELSE 0

\* C34: in both scorers the recency contribution lies between 0 and 10 for
\* every integer publication year, past or future: max(10 - 2*age, 0) for
\* papers at most 5 years old and 0 otherwise.
C34_RecencyBetween0And10 ==
    (quality # None /\ paper.yearPublished # None) =>
        /\ RecencyOfSp \in 0..1000
        /\ RecencyOfRs \in 0..1000
        /\ RecencyOfSp = ClaimedRecency(Val(paper.yearPublished), current_year)
        /\ RecencyOfRs = ClaimedRecency(Val(paper.yearPublished), current_year)

\* C34 for the years that are not in the future.
RecencyOfPastYears ==
    (/\ quality # None /\ paper.yearPublished # None
     /\ Val(paper.yearPublished) <= current_year) =>
        /\ RecencyOfSp = ClaimedRecency(Val(paper.yearPublished), current_year)
        /\ RecencyOfRs = ClaimedRecency(Val(paper.yearPublished), current_year)

(***************************************************************************)
(* Retrying fetcher: enrich_paper_with_crossref (search_paper.py)          *)
(***************************************************************************)

CONCURRENT_REQUEST_LIMIT == 5
MAX_RETRIES == 5
INITIAL_BACKOFF == 2000

\* Bounds: one more concurrent enrichment coroutine than there are permits,
\* the keyword pipelines that created them, and the failing responses served
\* when several coroutines run together.
NumTasks == CONCURRENT_REQUEST_LIMIT + 1
TaskKeywords == {1, 2}
MaxFailures == 1

\* What one attempt can end in: a 2xx with a parseable body, a 404, a 429,
\* another 4xx/5xx, a transport error or timeout, an unparseable body, any
\* other exception.
Outcomes == {"ok", "404", "429", "http_other", "transport", "bad_body",
             "other_exc"}
RetryOutcomes == {"429", "transport", "bad_body"}

\* The exception an attempt's outcome raises inside the try block:
\* raise_for_status() raises HTTPStatusError, httpx timeouts are RequestErrors,
\* response.json() raises ValueError, anything else is a plain Exception.
ExceptionOf(o) ==
    CASE o = "ok" -> "none"
      [] o \in {"404", "429", "http_other"} -> "HTTPStatusError"
      [] o = "transport" -> "RequestError"
      [] o = "bad_body" -> "ValueError"
      [] OTHER -> "Exception"

\* Mutant of ExceptClause: the final `except Exception` clause is missing.
ExceptClauseWithoutCatchAll(e) ==
    CASE e = "HTTPStatusError" -> "http_status"
      [] e \in {"RequestError", "ValueError"} -> "request_error"
      [] OTHER -> "uncaught"

\* The except clause of enrich_paper_with_crossref that catches exception e,
\* in the order the clauses are written.
ExceptClause(e) ==
    CASE e = "HTTPStatusError" -> "http_status"
      [] e \in {"RequestError", "ValueError"} -> "request_error"
      [] e = "Exception" -> "generic"
      [] OTHER -> "uncaught"

\* Mutant of MayRetry: the last retry is not taken.
MayRetryOneLess(attempt, retries) == attempt < retries - 2

\* `if attempt < retries - 1` of the RequestError/ValueError clause.
MayRetry(attempt, retries) == attempt < retries - 1

\* Mutant of IsRateLimited: every error status but 404 is retried like a 429.
IsRateLimitedOrOtherStatus(o) == o \in {"429", "http_other"}

\* `if code == 429:` of the HTTPStatusError clause.
IsRateLimited(o) == o = "429"

\* Mutant of LoopContinues: the loop runs one iteration too many.
LoopContinuesOffByOne(attempt, retries) == attempt + 1 <= retries

\* `for attempt in range(retries)`: is there an iteration after `attempt`?
LoopContinues(attempt, retries) == attempt + 1 < retries

\* Mutant of SemaphoreFree: a permit is handed out at value 0 as well.
SemaphoreFreeOffByOne(value) == value >= 0

\* `async with semaphore` lets the coroutine in when the value is positive.
SemaphoreFree(value) == value > 0

NewTask(kw) ==
    [pc |-> "new", kw |-> kw, doi |-> NoneStr, retries |-> MAX_RETRIES,
     attempt |-> 0, delay |-> INITIAL_BACKOFF, requests |-> 0,
     log |-> <<>>, waits |-> <<>>, result |-> "pending"]

\* The keyword pipeline whose page the t-th coroutine enriches.
KeywordOf(t) == ((t - 1) % Cardinality(TaskKeywords)) + 1

InitFetchWith(n, budget) ==
    /\ tasks = [k \in {NewTask(KeywordOf(t)) : t \in 1..n} |->
                  Cardinality({t \in 1..n : KeywordOf(t) = k.kw})]
    /\ semaphore = CONCURRENT_REQUEST_LIMIT
    /\ crossref_seen = FALSE
    /\ failures_left = budget
    /\ IdleScore
    /\ IdlePure
    /\ IdleRate
    /\ IdleMulti

\* One logical request on its own: every sequence of outcomes is served.
InitFetch == InitFetchWith(1, MAX_RETRIES)

\* The enrichment coroutines of the pages of the TaskKeywords pipelines.
InitSem == InitFetchWith(NumTasks, MaxFailures)

\* One coroutine moves from state k to state k2.
Moves(k, k2) == tasks' = (tasks (-) SetToBag({k})) (+) SetToBag({k2})

\* `async with semaphore:` -- the coroutine enters and sends client.get(url)
\* when a permit is free, otherwise it waits for one.
EnterSemaphore(k, k2) ==
    IF SemaphoreFree(semaphore)
    THEN /\ Moves(k, [k2 EXCEPT !.pc = "in_flight", !.requests = k2.requests + 1])
         /\ semaphore' = semaphore - 1
    ELSE /\ Moves(k, [k2 EXCEPT !.pc = "sem_wait"])
         /\ semaphore' = semaphore

\* Top of the loop body up to the first suspension: rate_limit_delay("crossref")
\* sleeps only when a previous call time is recorded (how long is modelled in
\* the rate-governor section; here it is a suspension of unknown length), then
\* the semaphore is entered.
RunAttempt(k, k2) ==
    /\ \E sleeps \in (IF crossref_seen THEN BOOLEAN ELSE {FALSE}) :
          IF sleeps
          THEN /\ Moves(k, [k2 EXCEPT !.pc = "rl_sleep"])
               /\ semaphore' = semaphore
          ELSE EnterSemaphore(k, k2)
    /\ crossref_seen' = TRUE

\* The coroutine starts: `if not doi: return None`, `delay = INITIAL_BACKOFF`,
\* then the first iteration runs up to its first suspension.
Call(k) ==
    /\ module = "search_paper"
    /\ k.pc = "new"
    /\ \E d \in {NoneStr, "10.1/x"} :
          IF d = NoneStr
          THEN /\ Moves(k, [k EXCEPT !.pc = "done", !.result = "None"])
               /\ UNCHANGED <<semaphore, crossref_seen>>
          ELSE RunAttempt(k, [k EXCEPT !.doi = d])
    /\ UNCHANGED <<failures_left, scoreVars, pureVars, rateVars, multiVars>>

\* asyncio.sleep inside rate_limit_delay returns.
WakeRateLimit(k) ==
    /\ module = "search_paper"
    /\ k.pc = "rl_sleep"
    /\ EnterSemaphore(k, k)
    /\ UNCHANGED <<crossref_seen, failures_left, scoreVars, pureVars, rateVars, multiVars>>

\* A coroutine waiting at `async with semaphore:` gets a permit.
WakeSemaphore(k) ==
    /\ k.pc = "sem_wait"
    /\ SemaphoreFree(semaphore)
    /\ EnterSemaphore(k, k)
    /\ UNCHANGED <<crossref_seen, failures_left, scoreVars, pureVars, rateVars, multiVars>>

\* A variant of NextDelay that keeps the delay constant.
NextDelayUnchanged(delay) == delay

\* `delay *= 1.5` after a backoff sleep (times are in milliseconds).
NextDelay(delay) == (delay * 3) \div 2

\* The state of coroutine k after its attempt ended in outcome o: the rest of
\* the try block and the except clause that catches what it raised.
AfterOutcome(k, o) ==
    LET clause == ExceptClause(ExceptionOf(o))
        logged == [k EXCEPT !.log = Append(k.log, o)]
        backoff(w) == [logged EXCEPT !.pc = "backoff",
                                     !.waits = Append(k.waits, w),
                                     !.delay = NextDelay(k.delay)]
        ends(r) == [logged EXCEPT !.pc = "done", !.result = r]
    IN  CASE o = "ok" -> ends("payload")
          [] clause = "http_status" ->
                IF IsRateLimited(o) THEN backoff(k.delay * (k.attempt + 1))
                ELSE ends("None")
          [] clause = "request_error" ->
                IF MayRetry(k.attempt, k.retries) THEN backoff(k.delay)
                ELSE ends("None")
          [] clause = "generic" -> ends("None")
          [] OTHER -> ends("raised")

\* A variant of SemaphoreRelease that loses the permit.
SemaphoreReleaseLost(value) == value

\* Leaving `async with semaphore:` gives the permit back.
SemaphoreRelease(value) == value + 1

\* client.get returns or raises: the semaphore is released, then the response
\* is classified.
Response(k) ==
    /\ module = "search_paper"
    /\ k.pc = "in_flight"
    /\ \E o \in Outcomes :
          /\ o \in RetryOutcomes => failures_left > 0
          /\ failures_left' = IF o \in RetryOutcomes THEN failures_left - 1
                              ELSE failures_left
          /\ Moves(k, AfterOutcome(k, o))
    /\ semaphore' = SemaphoreRelease(semaphore)
    /\ UNCHANGED <<crossref_seen, scoreVars, pureVars, rateVars, multiVars>>

\* The backoff sleep returns and `continue` runs: the next iteration up to its
\* first suspension, or the `return None` after the loop.
WakeBackoff(k) ==
    /\ module = "search_paper"
    /\ k.pc = "backoff"
    /\ IF LoopContinues(k.attempt, k.retries)
       THEN RunAttempt(k, [k EXCEPT !.attempt = k.attempt + 1])
       ELSE /\ Moves(k, [k EXCEPT !.pc = "done", !.result = "None"])
            /\ UNCHANGED <<semaphore, crossref_seen>>
    /\ UNCHANGED <<failures_left, scoreVars, pureVars, rateVars, multiVars>>

\* One logical request alone never waits for a permit.
NextFetch ==
    \E k \in BagToSet(tasks) :
        \/ Call(k)
        \/ WakeRateLimit(k)
        \/ Response(k)
        \/ WakeBackoff(k)

NextSem ==
    \/ NextFetch
    \/ \E k \in BagToSet(tasks) : WakeSemaphore(k)

SpecFetch == InitFetch /\ [][NextFetch]_vars
SpecSem == InitSem /\ [][NextSem]_vars

\* C4: enrich_paper_with_crossref never raises: whatever each attempt ends in,
\* a finished call has returned the payload or None.
C4_NeverRaises ==
    \A k \in BagToSet(tasks) :
        /\ k.result # "raised"
        /\ k.pc = "done" => k.result \in {"payload", "None"}

\* C4 witness: a call whose last attempt raised an exception that is neither
\* an HTTP status error nor a transport or parse error has returned None.
C4_Witness ==
    \E k \in BagToSet(tasks) :
        /\ k.pc = "done" /\ k.result = "None"
        /\ Len(k.log) > 1 /\ k.log[Len(k.log)] = "other_exc"

AllAttemptsEndIn(k, o) ==
    Len(k.log) > 0 /\ \A i \in 1..Len(k.log) : k.log[i] = o

\* C10: a logical request never makes more than MAX_RETRIES attempts; when
\* every attempt ends in a transport error, or every attempt ends in a 429,
\* it makes exactly MAX_RETRIES attempts and returns None.
C10_AttemptBudget ==
    \A k \in BagToSet(tasks) :
        /\ k.requests <= MAX_RETRIES
        /\ Len(k.log) <= MAX_RETRIES
        /\ (k.pc = "done" /\ (AllAttemptsEndIn(k, "transport")
                              \/ AllAttemptsEndIn(k, "429")))
              => /\ Len(k.log) = MAX_RETRIES
                 /\ k.requests = MAX_RETRIES
                 /\ k.result = "None"

\* C10 witness: a finished call all of whose attempts ended in a 429.
C10_Witness ==
    \E k \in BagToSet(tasks) :
        k.pc = "done" /\ AllAttemptsEndIn(k, "429") /\ k.requests = MAX_RETRIES

\* Attempts 1..n of call k each ended in a 429 or a transport error.
FailedTransiently(k, n) ==
    \A i \in 1..n : k.log[i] \in {"429", "transport"}

\* C11: when attempts 1..n-1 each end in a 429 or a transport error and
\* attempt n (n <= MAX_RETRIES) is a 2xx with a parseable body, the call
\* returns the payload after exactly n attempts; a call never gives up on such
\* failures before attempt MAX_RETRIES, so every such attempt n is made.
C11_SuccessAfterRetries ==
    \A k \in BagToSet(tasks) :
        LET n == Len(k.log)
        IN  /\ (n > 0 /\ k.log[n] = "ok" /\ FailedTransiently(k, n - 1))
                  => /\ k.pc = "done" /\ k.result = "payload"
                     /\ k.requests = n /\ n <= MAX_RETRIES
                     /\ Len(k.waits) = n - 1
            /\ (k.pc = "done" /\ n > 0 /\ FailedTransiently(k, n))
                  => n = MAX_RETRIES

\* C11 witness: two 429 responses and then a 200 gave the payload with
\* exactly 3 attempts.
C11_Witness ==
    \E k \in BagToSet(tasks) :
        /\ k.log = <<"429", "429", "ok">>
        /\ k.pc = "done" /\ k.result = "payload" /\ k.requests = 3

\* C11 witness for the last attempt of the budget, after failures of both kinds.
C11_WitnessLastAttempt ==
    \E k \in BagToSet(tasks) :
        /\ Len(k.log) = MAX_RETRIES /\ k.log[MAX_RETRIES] = "ok"
        /\ FailedTransiently(k, MAX_RETRIES - 1)
        /\ \E i, j \in 1..(MAX_RETRIES - 1) :
              k.log[i] = "429" /\ k.log[j] = "transport"
        /\ k.result = "payload"

\* C36: no backoff sleep follows the last permitted attempt: when attempt
\* MAX_RETRIES fails with a transport error or with a 429, the call returns
\* None without a wait, so a call never makes MAX_RETRIES waits.
C36_NoWaitAfterLastAttempt ==
    \A k \in BagToSet(tasks) :
        /\ Len(k.waits) < MAX_RETRIES
        /\ (Len(k.log) = MAX_RETRIES /\ k.log[MAX_RETRIES] \in {"429", "transport"})
              => k.pc = "done" /\ k.result = "None"

\* C36 for a transport error: the last permitted attempt is not followed by a
\* wait.
NoWaitAfterLastTransportError ==
    \A k \in BagToSet(tasks) :
        (Len(k.log) = MAX_RETRIES /\ k.log[MAX_RETRIES] = "transport")
            => /\ k.pc = "done" /\ k.result = "None"
               /\ Len(k.waits) = MAX_RETRIES - 1

\* The delay in force at the i-th wait of a call: INITIAL_BACKOFF * 1.5^(i-1).
RECURSIVE BaseDelay(_)
BaseDelay(i) == IF i = 1 THEN INITIAL_BACKOFF ELSE NextDelay(BaseDelay(i - 1))

\* C31: the backoff waits of one call start at INITIAL_BACKOFF and each wait
\* is at least 1.5 times the wait before it, for every mix of 429 and
\* transport-error outcomes.
C31_WaitsGrowByHalf ==
    \A k \in BagToSet(tasks) :
        /\ Len(k.waits) > 0 => k.waits[1] = INITIAL_BACKOFF
        /\ \A i \in 2..Len(k.waits) : 2 * k.waits[i] >= 3 * k.waits[i - 1]

\* What holds of the waits: the first is INITIAL_BACKOFF, the i-th is the base
\* delay INITIAL_BACKOFF * 1.5^(i-1) scaled by the attempt number i after a
\* 429, and a wait is at least 1.5 times the wait before it unless it follows
\* a transport error while the wait before it followed a 429 of attempt 2 or
\* later.
WaitsGrowByHalfExceptAfterRateLimit ==
    \A k \in BagToSet(tasks) :
        /\ Len(k.waits) > 0 => k.waits[1] = INITIAL_BACKOFF
        /\ \A i \in 1..Len(k.waits) :
              k.waits[i] = BaseDelay(i) * (IF k.log[i] = "429" THEN i ELSE 1)
        /\ \A i \in 2..Len(k.waits) :
              (k.log[i] = "429" \/ k.log[i - 1] # "429" \/ i = 2)
                  => 2 * k.waits[i] >= 3 * k.waits[i - 1]

\* A call that has made every wait its budget allows, after failures of both
\* kinds.
WaitedAfterBothKinds ==
    \E k \in BagToSet(tasks) :
        /\ Len(k.waits) = MAX_RETRIES - 1
        /\ \E i, j \in 1..Len(k.waits) : k.log[i] = "429" /\ k.log[j] = "transport"

\* A call whose wait after a transport error is shorter than its wait before,
\* which followed a 429: 6.0 and then 4.5 seconds.
WaitShrinksAfterRateLimit ==
    \E k \in BagToSet(tasks) :
        /\ Len(k.waits) >= 3
        /\ k.log[2] = "429" /\ k.log[3] # "429"
        /\ k.waits[3] < k.waits[2]

\* Number of coroutines between sending client.get and its return.
InFlight ==
    BagCardinality([k \in {x \in BagToSet(tasks) : x.pc = "in_flight"} |-> tasks[k]])

\* C6: at most CONCURRENT_REQUEST_LIMIT Crossref requests are in flight,
\* across the coroutines of all keyword pipelines.
C6_InFlightBounded == InFlight <= CONCURRENT_REQUEST_LIMIT

\* C6 witness: the limit is reached by requests of two pipelines while another
\* coroutine waits for a permit.
C6_Witness ==
    /\ InFlight = CONCURRENT_REQUEST_LIMIT
    /\ \E k \in BagToSet(tasks) : k.pc = "sem_wait"
    /\ \E a, b \in BagToSet(tasks) :
          a.pc = "in_flight" /\ b.pc = "in_flight" /\ a.kw # b.kw

(***************************************************************************)
(* Rate governor: rate_limit_delay (search_paper.py) and                   *)
(* _rate_limit_delay (research_service.py)                                 *)
(***************************************************************************)

RATE_LIMIT_DELAY == 300

\* Bounds: coroutines calling the governor, governor calls in a run, the
\* granularity of the clock and the end of the observed time window.
NumCallers == 2
MaxCalls == 4
ClockStep == 100
MaxClock == 600

Sources == {"openalex", "crossref"}
Modules == {"search_paper", "research_service"}

IdleCaller == [pc |-> "idle", api |-> "crossref", now |-> 0, wake |-> 0]

InitRate ==
    /\ module \in Modules
    /\ clock = 0
    /\ last_request_time = [s \in Sources |-> None]
    /\ \E n \in 1..NumCallers :
          callers = [c \in 1..n |-> IdleCaller]
    /\ released = [s \in Sources |-> <<>>]
    /\ IdleScore
    /\ IdlePure
    /\ IdleFetch
    /\ IdleMulti

CallsMade ==
    Len(released["openalex"]) + Len(released["crossref"])
        + Cardinality({c \in DOMAIN callers : callers[c].pc = "sleeping"})

\* The time the governor stores when a call that arrived at `arrived`
\* returns at `returned`: search_paper.py stores the `now` it read on entry,
\* research_service.py reads dt.now() again.
RecordedTime(m, arrived, returned) ==
    IF m = "search_paper" THEN arrived ELSE returned

\* `if last: elapsed = ...; if elapsed < RATE_LIMIT_DELAY:` -- must the call
\* sleep?  (A recorded time is truthy.)
MustSleep(last, now) == last # None /\ now - Val(last) < RATE_LIMIT_DELAY

\* A coroutine calls the governor for source s: up to the sleep, or to the
\* return when no sleep is needed.
CallGovernor(c, s) ==
    /\ callers[c].pc = "idle"
    /\ CallsMade < MaxCalls
    /\ IF MustSleep(last_request_time[s], clock)
       THEN /\ callers' = [callers EXCEPT ![c] =
                  [pc |-> "sleeping", api |-> s, now |-> clock,
                   wake |-> clock + (RATE_LIMIT_DELAY
                                       - (clock - Val(last_request_time[s])))]]
            /\ UNCHANGED <<last_request_time, released>>
       ELSE /\ last_request_time' = [last_request_time EXCEPT ![s] =
                  Some(RecordedTime(module, clock, clock))]
            /\ released' = [released EXCEPT ![s] = Append(released[s], clock)]
            /\ UNCHANGED callers
    /\ UNCHANGED <<module, clock, scoreVars, pureVars, fetchVars, multiVars>>

\* asyncio.sleep returns (not before the requested time), the call time is
\* stored and the governor returns.
WakeGovernor(c) ==
    /\ callers[c].pc = "sleeping"
    /\ clock >= callers[c].wake
    /\ last_request_time' = [last_request_time EXCEPT ![callers[c].api] =
          Some(RecordedTime(module, callers[c].now, clock))]
    /\ released' = [released EXCEPT ![callers[c].api] =
          Append(released[callers[c].api], clock)]
    /\ callers' = [callers EXCEPT ![c] = IdleCaller]
    /\ UNCHANGED <<module, clock, scoreVars, pureVars, fetchVars, multiVars>>

\* Time passes.
Tick ==
    /\ clock + ClockStep <= MaxClock
    /\ clock' = clock + ClockStep
    /\ UNCHANGED <<module, last_request_time, callers, released,
                   scoreVars, pureVars, fetchVars, multiVars>>

NextRate ==
    \/ \E c \in DOMAIN callers, s \in Sources : CallGovernor(c, s)
    \/ \E c \in DOMAIN callers : WakeGovernor(c)
    \/ Tick

SpecRate == InitRate /\ [][NextRate]_vars

(***************************************************************************)
(* Retrying fetcher: _crossref_get (research_service.py)                   *)
(***************************************************************************)

\* The except clause of _crossref_get that catches exception e: only
\* httpx.RequestError is retried, a ValueError of resp.json() falls to
\* `except Exception`.
CrossrefGetExceptClause(e) ==
    CASE e = "HTTPStatusError" -> "http_status"
      [] e = "RequestError" -> "request_error"
      [] e \in {"ValueError", "Exception"} -> "generic"
      [] OTHER -> "uncaught"

\* The state of a _crossref_get call after its attempt ended in outcome o.
CrossrefGetAfterOutcome(k, o) ==
    LET clause == CrossrefGetExceptClause(ExceptionOf(o))
        logged == [k EXCEPT !.log = Append(k.log, o)]
        backoff(w) == [logged EXCEPT !.pc = "backoff",
                                     !.waits = Append(k.waits, w),
                                     !.delay = (k.delay * 3) \div 2]
        ends(r) == [logged EXCEPT !.pc = "done", !.result = r]
    IN  CASE o = "ok" -> ends("payload")
          [] clause = "http_status" ->
                IF o = "429" THEN backoff(k.delay * (k.attempt + 1))
                ELSE ends("None")
          [] clause = "request_error" ->
                IF k.attempt < MAX_RETRIES - 1 THEN backoff(k.delay)
                ELSE ends("None")
          [] clause = "generic" -> ends("None")
          [] OTHER -> ends("raised")

\* Top of the loop body of _crossref_get up to its first suspension:
\* _rate_limit_delay("crossref") may sleep once a call time is recorded, then
\* client.get is sent (this module has no semaphore).
CrossrefGetRunAttempt(k, k2) ==
    /\ \E sleeps \in (IF crossref_seen THEN BOOLEAN ELSE {FALSE}) :
          IF sleeps
          THEN Moves(k, [k2 EXCEPT !.pc = "rl_sleep"])
          ELSE Moves(k, [k2 EXCEPT !.pc = "in_flight",
                                   !.requests = k2.requests + 1])
    /\ crossref_seen' = TRUE

\* _crossref_get starts: `if not doi: return None`, then the first iteration.
CrossrefGetCall(k) ==
    /\ module = "research_service"
    /\ k.pc = "new"
    /\ \E d \in {NoneStr, "10.1/x"} :
          IF d = NoneStr
          THEN /\ Moves(k, [k EXCEPT !.pc = "done", !.result = "None"])
               /\ UNCHANGED crossref_seen
          ELSE CrossrefGetRunAttempt(k, [k EXCEPT !.doi = d])
    /\ UNCHANGED <<semaphore, failures_left, scoreVars, pureVars, rateVars, multiVars>>

\* asyncio.sleep inside _rate_limit_delay returns and client.get is sent.
CrossrefGetWakeRateLimit(k) ==
    /\ module = "research_service"
    /\ k.pc = "rl_sleep"
    /\ Moves(k, [k EXCEPT !.pc = "in_flight", !.requests = k.requests + 1])
    /\ UNCHANGED <<semaphore, crossref_seen, failures_left, scoreVars, pureVars,
                   rateVars, multiVars>>

\* client.get returns or raises and the response is classified.
CrossrefGetResponse(k) ==
    /\ module = "research_service"
    /\ k.pc = "in_flight"
    /\ \E o \in Outcomes :
          /\ o \in RetryOutcomes => failures_left > 0
          /\ failures_left' = IF o \in RetryOutcomes THEN failures_left - 1
                              ELSE failures_left
          /\ Moves(k, CrossrefGetAfterOutcome(k, o))
    /\ UNCHANGED <<semaphore, crossref_seen, scoreVars, pureVars, rateVars, multiVars>>

\* The backoff sleep returns and `continue` runs.
CrossrefGetWakeBackoff(k) ==
    /\ module = "research_service"
    /\ k.pc = "backoff"
    /\ IF k.attempt + 1 < MAX_RETRIES
       THEN CrossrefGetRunAttempt(k, [k EXCEPT !.attempt = k.attempt + 1])
       ELSE /\ Moves(k, [k EXCEPT !.pc = "done", !.result = "None"])
            /\ UNCHANGED crossref_seen
    /\ UNCHANGED <<semaphore, failures_left, scoreVars, pureVars, rateVars, multiVars>>

\* One logical Crossref request, made by either module's fetcher.
InitRetry ==
    /\ tasks = SetToBag({NewTask(1)})
    /\ semaphore = CONCURRENT_REQUEST_LIMIT
    /\ crossref_seen = FALSE
    /\ failures_left = MAX_RETRIES
    /\ module \in Modules
    /\ clock = 0 /\ callers = <<>> /\ last_request_time = <<>>
    /\ released = <<>>
    /\ IdleScore
    /\ IdlePure
    /\ IdleMulti

NextRetry ==
    \E k \in BagToSet(tasks) :
        \/ Call(k)
        \/ WakeRateLimit(k)
        \/ Response(k)
        \/ WakeBackoff(k)
        \/ CrossrefGetCall(k)
        \/ CrossrefGetWakeRateLimit(k)
        \/ CrossrefGetResponse(k)
        \/ CrossrefGetWakeBackoff(k)

SpecRetry == InitRetry /\ [][NextRetry]_vars

\* C12: in both fetchers an attempt answered with a 404 or another 4xx/5xx
\* status except 429 is the last one: the call has returned None, without a
\* further attempt and without a backoff sleep after it; a single 404 costs
\* exactly one attempt.
C12_TerminalStatusEndsCall ==
    \A k \in BagToSet(tasks) :
        \A i \in 1..Len(k.log) :
            k.log[i] \in {"404", "http_other"} =>
                /\ i = Len(k.log)
                /\ k.pc = "done" /\ k.result = "None"
                /\ k.requests = i
                /\ Len(k.waits) = i - 1

\* C12 witness: a call of enrich_paper_with_crossref answered with one 404.
C12_Witness ==
    /\ module = "search_paper"
    /\ \E k \in BagToSet(tasks) :
          k.log = <<"404">> /\ k.pc = "done" /\ k.requests = 1

\* C12 witness in _crossref_get: a 5xx after a retried 429.
C12_WitnessCrossrefGet ==
    /\ module = "research_service"
    /\ \E k \in BagToSet(tasks) :
          k.log = <<"429", "http_other">> /\ k.pc = "done" /\ k.requests = 2

\* C28: in both fetchers a 2xx response whose body cannot be parsed is
\* handled like a transport error: it is followed by a backoff sleep and a
\* further attempt until MAX_RETRIES attempts are used up, and only the last
\* one gives None.
C28_BadBodyRetried ==
    \A k \in BagToSet(tasks) :
        \A i \in 1..Len(k.log) :
            k.log[i] = "bad_body" =>
                /\ k.result # "raised"
                /\ (i < MAX_RETRIES => Len(k.waits) >= i)
                /\ (i = Len(k.log) /\ k.pc = "done") =>
                      i = MAX_RETRIES /\ k.result = "None"

\* C28 for enrich_paper_with_crossref alone, whose clause
\* `except (httpx.RequestError, ValueError)` covers the parse error.
BadBodyRetriedInSearchPaper == module = "search_paper" => C28_BadBodyRetried

\* The case of C28 in enrich_paper_with_crossref: five unparseable bodies.
BadBodyBudgetUsedInSearchPaper ==
    /\ module = "search_paper"
    /\ \E k \in BagToSet(tasks) :
          /\ k.pc = "done" /\ AllAttemptsEndIn(k, "bad_body")
          /\ k.requests = MAX_RETRIES /\ k.result = "None"

\* Successive returns of governor calls for source s are at least
\* RATE_LIMIT_DELAY apart.
Spaced(s) ==
    \A i \in 1..(Len(released[s]) - 1) :
        released[s][i + 1] - released[s][i] >= RATE_LIMIT_DELAY

\* C8: concurrent calls for the same source are serialized: no two calls to
\* one source are released less than RATE_LIMIT_DELAY apart, in either module.
C8_ConcurrentCallsSpaced == \A s \in Sources : Spaced(s)

\* C8 in each module on its own.
C8_SearchPaperSpaced == module = "search_paper" => \A s \in Sources : Spaced(s)
C8_ResearchServiceSpaced ==
    module = "research_service" => \A s \in Sources : Spaced(s)

\* C9: one coroutine calling rate_limit_delay (search_paper.py) repeatedly for
\* a source is released at least RATE_LIMIT_DELAY after its previous release.
C9_SuccessiveCallsSpaced ==
    (module = "search_paper" /\ DOMAIN callers = {1}) =>
        \A s \in Sources : Spaced(s)

\* The same for _rate_limit_delay (research_service.py), which stores the time
\* read after the sleep.
SingleCallerSpacedInResearchService ==
    (module = "research_service" /\ DOMAIN callers = {1}) =>
        \A s \in Sources : Spaced(s)

(***************************************************************************)
(* Orchestrator: discover_and_process_multi and discover_and_process_single *)
(* (search_paper.py)                                                       *)
(***************************************************************************)

KEYWORD_CONCURRENCY_LIMIT == 5

\* Bounds: keywords of the query, the fetch_pages argument, works per page,
\* and works the stub primary source serves in a run (narrow / wide query).
NumKeywords == 2
FetchPages == 2
MaxPageWorks == 2
MaxWorks == 2
MaxWorksWide == 0

\* A raw ISSN is a string, written as the sequence of its characters; None and
\* the empty string are both <<>>.
Digits == {"0", "1", "2", "3", "4", "5", "6", "7", "8", "9"}
KnownIssn == <<"1", "2", "-", "3", "4">>
UnknownIssn == <<"5", "6", "-", "7", "X">>
DashesOnly == <<"-">>

\* host_venue of a work: absent, or a dict with a linking ISSN and an ISSN list.
NoVenue == [present |-> FALSE, issn_l |-> <<>>, issn |-> <<>>]

\* The work dict {}: every field absent.
EmptyWork ==
    [id |-> NoneStr, doi |-> NoneStr, title |-> NoneStr, year |-> None,
     cites |-> 0, abstract |-> FALSE, oa |-> FALSE, venue |-> NoVenue]

\* Works of the stub primary source (OpenAlex records): some without DOI.
StubWorks ==
    [id : {"W"}, doi : {NoneStr, "10.1/a"}, title : {"T"},
     year : {Some(ThisYear - 6)}, cites : {9, 99}, abstract : {FALSE},
     oa : {FALSE}, venue : {NoVenue}]

\* What asyncio.gather hands back for a work: None, or the Crossref message
\* with a publisher and an ISSN list.
NoMeta == [kind |-> "None", publisher |-> NoneStr, ISSN |-> <<>>]
CrossrefResults ==
    {NoMeta, [kind |-> "payload", publisher |-> "P", ISSN |-> <<KnownIssn>>]}

\* enrich_paper_with_crossref returns None at once for a work without DOI.
MetaFor(w) == IF w.doi = NoneStr \/ w.doi = "" THEN {NoMeta} ELSE CrossrefResults

\* clean_issn: re.sub(r"\D", "", issn or "").
clean_issn(issn) == LET IsDigit(c) == c \in Digits IN SelectSeq(issn, IsDigit)

\* sjr_lookup_data: the ranking table, keyed by cleaned ISSN.
sjr_lookup_data ==
    [i \in {clean_issn(KnownIssn)} |->
        [quartile |-> "Q1", h_index |-> 100, sjr |-> 3, impact_factor |-> 2]]

\* Python truthiness of a string field.
Truthy(str) == str # NoneStr /\ str # ""

\* `if crossref_meta and not isinstance(crossref_meta, Exception)`
UsableMeta(meta) == meta.kind = "payload"

\* Mutant of IssnCandidates: the venue's candidates come before Crossref's.
IssnCandidatesVenueFirst(w, meta) ==
    (IF w.venue.present
     THEN (IF w.venue.issn_l # <<>> THEN <<w.venue.issn_l>> ELSE <<>>)
              \o w.venue.issn
     ELSE <<>>)
    \o (IF UsableMeta(meta) THEN meta.ISSN ELSE <<>>)

\* issn_candidates: Crossref's ISSN list, then host_venue's issn_l, then
\* host_venue's issn list.
IssnCandidates(w, meta) ==
    (IF UsableMeta(meta) THEN meta.ISSN ELSE <<>>)
    \o (IF w.venue.present
        THEN (IF w.venue.issn_l # <<>> THEN <<w.venue.issn_l>> ELSE <<>>)
                 \o w.venue.issn
        ELSE <<>>)

\* `for raw in issn_candidates: if raw: c = clean_issn(raw); if c: ... break`
\* -- the first candidate that is non-empty after cleaning, or None (<<>>).
RECURSIVE FirstCleanIssn(_)
FirstCleanIssn(candidates) ==
    IF candidates = <<>> THEN <<>>
    ELSE IF Head(candidates) # <<>> /\ clean_issn(Head(candidates)) # <<>>
         THEN clean_issn(Head(candidates))
         ELSE FirstCleanIssn(Tail(candidates))

\* The final_paper dict built for one work of a page and its Crossref result.
BuildPaper(w, meta, kw) ==
    LET issn   == FirstCleanIssn(IssnCandidates(w, meta))
        ranked == issn # <<>> /\ issn \in DOMAIN sjr_lookup_data
        base   == [title |-> w.title, doi |-> w.doi, citationCount |-> w.cites,
                   publisher |-> IF UsableMeta(meta) THEN meta.publisher
                                 ELSE NoneStr,
                   yearPublished |-> w.year, abstract |-> w.abstract,
                   isFreelyAvailable |-> w.oa,
                   issn |-> issn,
                   quartile |-> IF ranked THEN sjr_lookup_data[issn].quartile
                                ELSE NoneStr,
                   h_index |-> IF ranked THEN Some(sjr_lookup_data[issn].h_index)
                               ELSE None,
                   sjrScore |-> IF ranked THEN Some(sjr_lookup_data[issn].sjr)
                                ELSE None,
                   impactFactor |->
                       IF ranked THEN Some(sjr_lookup_data[issn].impact_factor)
                       ELSE None,
                   sourceKeyword |-> kw, qualityScore |-> 0]
    IN  [base EXCEPT !.qualityScore = calculate_quality_score(base, ThisYear)]

\* Mutant of PagePapers: works whose lookup gave no message are dropped.
RECURSIVE PagePapersEnrichedOnly(_, _, _)
PagePapersEnrichedOnly(ws, ms, kw) ==
    IF ws = <<>> \/ ms = <<>> THEN <<>>
    ELSE (IF Head(ws) = EmptyWork \/ ~UsableMeta(Head(ms)) THEN <<>>
          ELSE <<BuildPaper(Head(ws), Head(ms), kw)>>)
         \o PagePapersEnrichedOnly(Tail(ws), Tail(ms), kw)

\* work["authorships"]: the key is absent in the stub works; where present it
\* is a list of well-formed entries ("list"), null, or a list with an entry
\* whose author dict has no display_name.
AuthorshipsOf(w) ==
    IF "authorships" \in DOMAIN w THEN w.authorships ELSE "absent"

\* `[a["author"]["display_name"] for a in work.get("authorships", []) if
\* a.get("author")]` raises TypeError over None and KeyError for an author
\* without display_name.
AuthorsRaise(w) == AuthorshipsOf(w) \in {"null", "no_display_name"}

\* An ISSN candidate that is not a str (a number).
NonStrIssn == <<"int">>

\* `for raw in issn_candidates: if raw: c = clean_issn(raw)`: re.sub raises
\* TypeError for a candidate that is not a str, if the loop gets to it.
RECURSIVE IssnRaises(_)
IssnRaises(candidates) ==
    IF candidates = <<>> THEN FALSE
    ELSE IF Head(candidates) = NonStrIssn THEN TRUE
    ELSE IF Head(candidates) # <<>> /\ clean_issn(Head(candidates)) # <<>>
         THEN FALSE
         ELSE IssnRaises(Tail(candidates))

\* The body of the loop raises for this work.
WorkRaises(w, meta) ==
    w # EmptyWork /\ (AuthorsRaise(w) \/ IssnRaises(IssnCandidates(w, meta)))

\* The loop over the page is left by an exception.
PageRaises(ws, ms) ==
    \E i \in 1..Min(Len(ws), Len(ms)) : WorkRaises(ws[i], ms[i])

\* `for work, crossref_meta in zip(discovered_works, crossref_metadata_list)`:
\* the Papers appended to results, empty works skipped; an exception raised
\* for a work leaves the loop with the Papers appended before it.
RECURSIVE PagePapers(_, _, _)
PagePapers(ws, ms, kw) ==
    IF ws = <<>> \/ ms = <<>> THEN <<>>
    ELSE IF WorkRaises(Head(ws), Head(ms)) THEN <<>>
    ELSE (IF Head(ws) = EmptyWork THEN <<>>
          ELSE <<BuildPaper(Head(ws), Head(ms), kw)>>)
         \o PagePapers(Tail(ws), Tail(ms), kw)

\* What a primary-source request can end in: a page, an HTTP error status, a
\* transport error or timeout.
PrimaryOutcomes == {"page", "http_error", "transport"}

\* Mutant of PipelineExceptClause: HTTP status errors are not caught.
PipelineExceptClauseGenericOnly(o) ==
    CASE o = "page" -> "none"
      [] o = "http_error" -> "uncaught"
      [] OTHER -> "generic"

\* Mutant of PipelineExceptClause: only HTTP status errors are caught.
PipelineExceptClauseHttpOnly(o) ==
    CASE o = "page" -> "none"
      [] o = "http_error" -> "http_status"
      [] OTHER -> "uncaught"

\* The except clause of the page loop that catches what outcome o raises:
\* `except httpx.HTTPStatusError`, then `except Exception`.
PipelineExceptClause(o) ==
    CASE o = "page" -> "none"
      [] o = "http_error" -> "http_status"
      [] OTHER -> "generic"

\* Mutant of KwSemaphoreFree: a permit is handed out at value 0 as well.
KwSemaphoreFreeOffByOne(value) == value >= 0

\* `async with kw_sem` lets a runner in when the value is positive.
KwSemaphoreFree(value) == value > 0

\* ---- the dict of the de-duplication loop ----
\* Keys are Python values: a str (a DOI, or str(key) of a tuple) or a tuple.
StrKey(text) == [type |-> "str", text |-> text]
TupleKey(title, year) == [type |-> "tuple", text |-> <<title, year>>]
\* str((title, year)), e.g. "('T', 2020)": never equal to a DOI.
PyStr(key) == [type |-> "str", text |-> <<"(", key.text[1], key.text[2], ")">>]

DictHas(d, key) == \E i \in 1..Len(d) : d[i].key = key
DictGet(d, key) == d[CHOOSE i \in 1..Len(d) : d[i].key = key].paper
DictPut(d, key, p) ==
    IF DictHas(d, key)
    THEN [i \in 1..Len(d) |-> IF d[i].key = key THEN [key |-> key, paper |-> p]
                                ELSE d[i]]
    ELSE Append(d, [key |-> key, paper |-> p])

\* Mutant of DoiKey: the dict is keyed by DOI and source keyword.
DoiKeyPerKeyword(p) == StrKey(<<p.doi, p.sourceKeyword>>)

\* The dict key of a Paper that has a DOI.
DoiKey(p) == StrKey(<<p.doi>>)

\* Mutant of Outscores: the comparison is not strict.
OutscoresOrTies(p, stored) == p.qualityScore >= stored.qualityScore

\* Mutant of Outscores: the comparison is reversed.
OutscoredBy(p, stored) == p.qualityScore < stored.qualityScore

\* `p.get("qualityScore", 0) > dedup[...].get("qualityScore", 0)`
Outscores(p, stored) == p.qualityScore > stored.qualityScore

\* One iteration of `for p in all_results:`.
DedupStep(d, p) ==
    IF ~Truthy(p.doi)
    THEN LET key == TupleKey(p.title, p.yearPublished)
         IN  IF ~DictHas(d, key)
             THEN DictPut(d, PyStr(key), p)
             ELSE IF Outscores(p, DictGet(d, PyStr(key)))
                  THEN DictPut(d, PyStr(key), p)
                  ELSE d
    ELSE IF ~DictHas(d, DoiKey(p)) \/ Outscores(p, DictGet(d, DoiKey(p)))
         THEN DictPut(d, DoiKey(p), p)
         ELSE d

RECURSIVE DedupLoop(_, _)
DedupLoop(d, rs) ==
    IF rs = <<>> THEN d ELSE DedupLoop(DedupStep(d, Head(rs)), Tail(rs))

NewPipeline ==
    [pc |-> "pending", pages_fetched |-> 0, requests |-> 0, failed |-> 0,
     last |-> "none", built |-> 0, results |-> <<>>]

InitMultiWith(n, corpus) ==
    /\ pipelines = [k \in 1..n |-> NewPipeline]
    /\ kw_sem = KEYWORD_CONCURRENCY_LIMIT
    /\ all_results = <<>>
    /\ dedup = <<>>
    /\ merged_results = <<>>
    /\ mpc = "gathering"
    /\ works_left = corpus
    /\ IdleScore
    /\ IdlePure
    /\ IdleFetch
    /\ IdleRate

\* A query of a few keywords over a stub source that serves several works.
InitMulti == InitMultiWith(NumKeywords, MaxWorks)

\* A query of more keywords than KEYWORD_CONCURRENCY_LIMIT.
InitWide == InitMultiWith(KEYWORD_CONCURRENCY_LIMIT + 1, MaxWorksWide)

\* _runner(kw) passes `async with kw_sem` and enters
\* discover_and_process_single.
StartRunner(k) ==
    /\ mpc = "gathering"
    /\ pipelines[k].pc = "pending"
    /\ KwSemaphoreFree(kw_sem)
    /\ kw_sem' = kw_sem - 1
    /\ pipelines' = [pipelines EXCEPT ![k].pc = "running"]
    /\ UNCHANGED <<all_results, dedup, merged_results, mpc, works_left,
                   scoreVars, pureVars, fetchVars, rateVars>>

\* discover_and_process_single returns rs: kw_sem is released, as_completed
\* hands the list to the collecting loop, which extends all_results.
Returns(k, q, rs) ==
    /\ pipelines' = [pipelines EXCEPT ![k] = [q EXCEPT !.pc = "returned",
                                                       !.results = rs]]
    /\ kw_sem' = kw_sem + 1
    /\ all_results' = all_results \o rs
    /\ mpc' = mpc

\* An exception leaves discover_and_process_single: kw_sem is released and
\* `res = await coro` raises it out of discover_and_process_multi.
Raises(k, q) ==
    /\ pipelines' = [pipelines EXCEPT ![k] = [q EXCEPT !.pc = "raised"]]
    /\ kw_sem' = kw_sem + 1
    /\ all_results' = all_results
    /\ mpc' = "raised"

\* Mutant of WhileContinues: the page budget is tested with <=.
WhileContinuesOffByOne(pages_fetched, fetch_pages) == pages_fetched <= fetch_pages

\* `while pages_fetched < fetch_pages:`
WhileContinues(pages_fetched, fetch_pages) == pages_fetched < fetch_pages

\* One iteration of `while pages_fetched < fetch_pages:` of keyword k: the
\* request, the enrichment of the page's works (each Crossref result is what
\* enrich_paper_with_crossref returned), the Papers, the cursor, and the loop
\* test that follows.  `last` records how the request ended and `built` counts
\* the Papers built from fetched pages.  An exception raised inside the loop
\* over the works is caught by `except Exception: ... break`.  The page's
\* works are drawn from the set Works.
FetchPageOf(k, Works) ==
    /\ mpc = "gathering"
    /\ pipelines[k].pc = "running"
    /\ \E o \in PrimaryOutcomes, has_next \in BOOLEAN,
          n \in 0..Min(works_left, MaxPageWorks) :
        \E ws \in [1..n -> Works], ms \in [1..n -> CrossrefResults] :
          /\ \A i \in 1..n : ms[i] \in MetaFor(ws[i])
          /\ LET q      == pipelines[k]
                 clause == PipelineExceptClause(o)
                 papers == PagePapers(ws, ms, k)
                 asked  == [q EXCEPT !.requests = q.requests + 1]
                 failed == [asked EXCEPT !.failed = q.failed + 1, !.last = o]
                 empty  == [asked EXCEPT !.last = "empty"]
                 added  == [asked EXCEPT !.results = q.results \o papers,
                                         !.built = q.built + Len(papers)]
                 broken == [added EXCEPT !.last = "work_error"]
                 ended  == [added EXCEPT !.last = "no_cursor"]
                 paged  == [added EXCEPT !.last = "page",
                                         !.pages_fetched = q.pages_fetched + 1]
             IN  CASE o # "page" /\ (n # 0 \/ has_next) -> FALSE
                   [] o # "page" /\ clause \in {"http_status", "generic"} ->
                         Returns(k, failed, q.results) /\ UNCHANGED works_left
                   [] o # "page" -> Raises(k, failed) /\ UNCHANGED works_left
                   [] n = 0 ->
                         Returns(k, empty, q.results) /\ UNCHANGED works_left
                   [] PageRaises(ws, ms) ->
                         /\ Returns(k, broken, broken.results)
                         /\ works_left' = works_left - n
                   [] ~has_next ->
                         /\ Returns(k, ended, ended.results)
                         /\ works_left' = works_left - n
                   [] WhileContinues(paged.pages_fetched, FetchPages) ->
                         /\ pipelines' = [pipelines EXCEPT ![k] = paged]
                         /\ works_left' = works_left - n
                         /\ UNCHANGED <<kw_sem, all_results, mpc>>
                   [] OTHER ->
                         /\ Returns(k, paged, paged.results)
                         /\ works_left' = works_left - n
    /\ UNCHANGED <<dedup, merged_results, scoreVars, pureVars, fetchVars, rateVars>>

\* The stub primary source serves well-formed works.
FetchPage(k) == FetchPageOf(k, StubWorks)

\* All keyword results are collected: the de-duplication loop and
\* `merged_results = list(dedup.values())`.
Deduplicate ==
    /\ mpc = "gathering"
    /\ \A k \in DOMAIN pipelines : pipelines[k].pc = "returned"
    /\ dedup' = DedupLoop(<<>>, all_results)
    /\ merged_results' = [i \in 1..Len(dedup') |-> dedup'[i].paper]
    /\ mpc' = "done"
    /\ UNCHANGED <<pipelines, kw_sem, all_results, works_left,
                   scoreVars, pureVars, fetchVars, rateVars>>

NextMulti ==
    \/ \E k \in DOMAIN pipelines : StartRunner(k)
    \/ \E k \in DOMAIN pipelines : FetchPage(k)
    \/ Deduplicate

Spec == InitMulti /\ [][NextMulti]_vars
SpecWide == InitWide /\ [][NextMulti]_vars

\* Indices of the records of list rs that carry DOI d.
WithDoi(rs, d) == {i \in 1..Len(rs) : rs[i].doi = d}

\* C1: for every DOI and every completion order, the surviving Paper is a
\* collected Paper of that DOI with the highest quality score among them, and
\* it is the only survivor for that DOI.
C1_BestScorePerDoi ==
    mpc = "done" =>
        \A i \in 1..Len(all_results) :
            Truthy(all_results[i].doi) =>
                LET d == all_results[i].doi
                IN  /\ Cardinality(WithDoi(merged_results, d)) = 1
                    /\ \A j \in WithDoi(merged_results, d) :
                          /\ merged_results[j].qualityScore
                                >= all_results[i].qualityScore
                          /\ \E c \in WithDoi(all_results, d) :
                                all_results[c] = merged_results[j]

\* C1 witness: two keywords returned the same DOI, the lower-scoring record
\* was collected first, and one Paper is returned.
C1_Witness ==
    /\ mpc = "done"
    /\ Len(merged_results) = 1
    /\ \E i, j \in 1..Len(all_results) :
          /\ i < j
          /\ Truthy(all_results[i].doi)
          /\ all_results[i].doi = all_results[j].doi
          /\ all_results[i].sourceKeyword # all_results[j].sourceKeyword
          /\ all_results[i].qualityScore < all_results[j].qualityScore

\* Indices of the records of list rs that have no DOI and the title and
\* publication year of p.
WithoutDoiLike(rs, p) ==
    {i \in 1..Len(rs) : /\ ~Truthy(rs[i].doi)
                        /\ rs[i].title = p.title
                        /\ rs[i].yearPublished = p.yearPublished}

\* C16: among collected Papers without DOI that share title and publication
\* year, the survivor has the highest quality score of the group, in every
\* arrival order.
C16_BestScoreWithoutDoi ==
    mpc = "done" =>
        \A i \in 1..Len(all_results) :
            ~Truthy(all_results[i].doi) =>
                \A j \in WithoutDoiLike(merged_results, all_results[i]) :
                    merged_results[j].qualityScore >= all_results[i].qualityScore

\* The group's survivor is a collected record of the group and the only one
\* returned (this much holds for Papers without DOI).
SurvivorWithoutDoiIsCollected ==
    mpc = "done" =>
        \A i \in 1..Len(all_results) :
            ~Truthy(all_results[i].doi) =>
                /\ Cardinality(WithoutDoiLike(merged_results, all_results[i])) = 1
                /\ \A j \in WithoutDoiLike(merged_results, all_results[i]) :
                      \E c \in WithoutDoiLike(all_results, all_results[i]) :
                          all_results[c] = merged_results[j]

\* The identity of a Paper: its DOI when present, otherwise title and year.
IdentityKey(p) ==
    IF Truthy(p.doi) THEN [doi |-> p.doi, title |-> "", year |-> None]
    ELSE [doi |-> "", title |-> p.title, year |-> p.yearPublished]

\* C2: the returned collection holds at most one Paper per identity key and
\* no more records than were collected.
C2_OnePerIdentity ==
    mpc = "done" =>
        /\ Len(merged_results) <= Len(all_results)
        /\ \A i, j \in 1..Len(merged_results) :
              i # j => IdentityKey(merged_results[i]) # IdentityKey(merged_results[j])

\* C2 witness: Papers with and without DOI were collected, two of them with
\* the same identity, and fewer were returned than collected.
C2_Witness ==
    /\ mpc = "done"
    /\ Len(merged_results) < Len(all_results)
    /\ \E i, j \in 1..Len(all_results) :
          /\ i # j
          /\ ~Truthy(all_results[i].doi)
          /\ IdentityKey(all_results[i]) = IdentityKey(all_results[j])

\* The records of all_results that keyword k contributed, in order.
ContributedBy(k) ==
    LET OfK(p) == p.sourceKeyword = k IN SelectSeq(all_results, OfK)

\* Every primary-source request of keyword k failed.
AllRequestsFailed(k) ==
    pipelines[k].requests > 0 /\ pipelines[k].failed = pipelines[k].requests

\* C5: a keyword whose primary-source requests all fail contributes no Paper,
\* no exception reaches the caller, and every keyword's Papers are collected
\* exactly as its own pipeline built them.
C5_FailedKeywordIsolated ==
    /\ mpc # "raised"
    /\ \A k \in DOMAIN pipelines :
          /\ pipelines[k].pc # "raised"
          /\ (pipelines[k].pc = "returned" /\ AllRequestsFailed(k))
                => pipelines[k].results = <<>> /\ ContributedBy(k) = <<>>
          /\ pipelines[k].pc = "returned"
                => ContributedBy(k) = pipelines[k].results
          /\ pipelines[k].pc # "returned" => ContributedBy(k) = <<>>

\* C5 witness: one keyword failed on a transport error or an HTTP error, a
\* sibling's Papers were collected and the call returned.
C5_Witness ==
    /\ mpc = "done"
    /\ \E k, j \in DOMAIN pipelines :
          /\ k # j
          /\ AllRequestsFailed(k)
          /\ ~AllRequestsFailed(j)
          /\ Len(ContributedBy(j)) > 0
          /\ Len(merged_results) > 0

\* How a primary-source request that ends pagination was answered.
StopAnswers == {"empty", "no_cursor", "http_error", "transport"}

\* C13: a keyword pipeline issues at most fetch_pages primary-source requests,
\* and none after a page with zero works, a response without continuation
\* cursor, or an error: after such an answer the pipeline has left the loop,
\* and a pipeline still in the loop has used less than its page budget.
C13_PageBudget ==
    \A k \in DOMAIN pipelines :
        LET q == pipelines[k]
        IN  /\ q.requests <= FetchPages
            /\ q.last \in StopAnswers =>
                  /\ q.pc \in {"returned", "raised"}
                  /\ q.requests = q.pages_fetched + 1
            /\ q.pc = "running" =>
                  /\ q.last \in {"none", "page"}
                  /\ q.requests = q.pages_fetched
                  /\ q.requests < FetchPages

\* C13 witness: a pipeline used its whole page budget on pages that each had
\* works and a cursor, and returned.
C13_Witness ==
    \E k \in DOMAIN pipelines :
        /\ pipelines[k].pc = "returned"
        /\ pipelines[k].last = "page"
        /\ pipelines[k].requests = FetchPages
        /\ Len(pipelines[k].results) > 0

\* C13 witness for an early stop: an empty page after a page with works.
C13_WitnessEmptyPage ==
    \E k \in DOMAIN pipelines :
        /\ pipelines[k].pc = "returned"
        /\ pipelines[k].last = "empty"
        /\ pipelines[k].requests = 2
        /\ Len(pipelines[k].results) > 0

\* C14: when the primary source answers a page with an HTTP error, the
\* keyword's pagination stops, the Papers built from the pages before it are
\* all returned and collected, and nothing is raised.
C14_HttpErrorKeepsEarlierPages ==
    \A k \in DOMAIN pipelines :
        LET q == pipelines[k]
        IN  q.last = "http_error" =>
                /\ q.pc = "returned"
                /\ mpc # "raised"
                /\ q.failed = 1
                /\ q.requests = q.pages_fetched + 1
                /\ Len(q.results) = q.built
                /\ ContributedBy(k) = q.results

\* C14 witness: an HTTP error on the second page, after a page with works.
C14_Witness ==
    \E k \in DOMAIN pipelines :
        /\ pipelines[k].last = "http_error"
        /\ pipelines[k].pages_fetched = 1
        /\ Len(pipelines[k].results) > 0
        /\ pipelines[k].pc = "returned"

\* Keyword pipelines inside discover_and_process_single.
Running == {k \in DOMAIN pipelines : pipelines[k].pc = "running"}

\* C7: at most KEYWORD_CONCURRENCY_LIMIT keyword pipelines are inside
\* discover_and_process_single, also for a query of more keywords.
C7_RunnersBounded == Cardinality(Running) <= KEYWORD_CONCURRENCY_LIMIT

\* C7 witness: the limit is reached while another keyword waits at kw_sem.
C7_Witness ==
    /\ Cardinality(Running) = KEYWORD_CONCURRENCY_LIMIT
    /\ \E k \in DOMAIN pipelines : pipelines[k].pc = "pending"

(***************************************************************************)
(* discover_and_process_single over a source that serves malformed works   *)
(***************************************************************************)

\* A well-formed work with an authorships list.
ListedWork ==
    [id |-> "W", doi |-> "10.1/a", title |-> "T", year |-> Some(ThisYear - 6),
     cites |-> 9, abstract |-> FALSE, oa |-> FALSE, venue |-> NoVenue,
     authorships |-> "list"]

ListedWorks == {ListedWork, [ListedWork EXCEPT !.cites = 99]}

\* The same work with an author entry without display name, with a null
\* authorships list, and with a number as its venue's linking ISSN.
MalformedWorks ==
    {[ListedWork EXCEPT !.authorships = "no_display_name"],
     [ListedWork EXCEPT !.authorships = "null"],
     [ListedWork EXCEPT !.venue = [present |-> TRUE, issn_l |-> NonStrIssn,
                                   issn |-> <<>>]]}

\* One keyword; the stub source may serve malformed works.
InitMalformed == InitMultiWith(1, MaxWorks)

FetchMalformedPage(k) == FetchPageOf(k, ListedWorks \cup MalformedWorks)

NextMalformed ==
    \/ \E k \in DOMAIN pipelines : StartRunner(k)
    \/ \E k \in DOMAIN pipelines : FetchMalformedPage(k)
    \/ Deduplicate

SpecMalformed == InitMalformed /\ [][NextMalformed]_vars

\* C24: malformed data inside one work (an author entry without display
\* name, a null authorships list, an ISSN candidate that is not a string) is
\* absorbed as an absent field: every work the source served is emitted as a
\* Paper and pagination ends only for an empty page, a missing cursor, the
\* page budget or a request error.
C24_MalformedWorkAbsorbed ==
    \A k \in DOMAIN pipelines :
        /\ pipelines[k].last \in StopAnswers \cup {"none", "page"}
        /\ pipelines[k].pc = "returned" =>
              Len(pipelines[k].results) = MaxWorks - works_left

\* C24 for the pages without malformed work: every served work is emitted.
WellFormedWorksEmitted ==
    \A k \in DOMAIN pipelines :
        (pipelines[k].pc = "returned" /\ pipelines[k].last # "work_error") =>
            Len(pipelines[k].results) = MaxWorks - works_left

(***************************************************************************)
(* One fetched page of discover_and_process_single (search_paper.py): the  *)
(* loop over its works and their Crossref results                          *)
(***************************************************************************)

\* Bounds: works on the page, and entries of an ISSN list.
MaxPageLen == 2
MaxIssns == 2

RawIssns == {<<>>, DashesOnly, KnownIssn, UnknownIssn}
IssnLists == UNION {[1..n -> RawIssns] : n \in 0..MaxIssns}

\* Works of a page: with and without DOI, with and without venue, and {}.
PlainWorks ==
    [id : {"W"}, doi : {NoneStr, "10.1/a"}, title : {"T"},
     year : {Some(ThisYear - 1)}, cites : {9}, abstract : {TRUE}, oa : {TRUE},
     venue : {NoVenue,
              [present |-> TRUE, issn_l |-> KnownIssn, issn |-> <<>>]}]
        \cup {EmptyWork}

\* What the lookup of a work with DOI can hand back: None (not found, or
\* retries exhausted), a message, the message {}, or an exception object
\* kept by gather(return_exceptions=True).
NoMessage == [kind |-> "empty_payload", publisher |-> NoneStr, ISSN |-> <<>>]
LookupRaised == [kind |-> "exception", publisher |-> NoneStr, ISSN |-> <<>>]
PlainResults ==
    {NoMeta, NoMessage, LookupRaised}
        \cup [kind : {"payload"}, publisher : {"P"},
              ISSN : {<<>>, <<UnknownIssn>>}]

\* One work with every shape of ISSN candidates.
IssnWorks ==
    [id : {"W"}, doi : {NoneStr, "10.1/a"}, title : {"T"},
     year : {Some(ThisYear - 1)}, cites : {9}, abstract : {TRUE}, oa : {TRUE},
     venue : {NoVenue} \cup [present : {TRUE}, issn_l : RawIssns,
                              issn : IssnLists]]
IssnResults ==
    {NoMeta, NoMessage, LookupRaised}
        \cup [kind : {"payload"}, publisher : {"P"}, ISSN : IssnLists]

\* The lookup results a page of works can come with.
LookupsFor(ws, Results) ==
    {ms \in [DOMAIN ws -> Results] :
        \A i \in DOMAIN ws : ~Truthy(ws[i].doi) => ms[i] = NoMeta}

InitPage ==
    /\ \/ \E n \in 0..MaxPageLen :
             /\ discovered_works \in [1..n -> PlainWorks]
             /\ crossref_metadata_list \in LookupsFor(discovered_works,
                                                       PlainResults)
       \/ /\ discovered_works \in [1..1 -> IssnWorks]
          /\ crossref_metadata_list \in LookupsFor(discovered_works,
                                                    IssnResults)
    /\ results = <<>>
    /\ page_done = FALSE
    /\ inverted_index = <<>> /\ abstract_text = <<>>
    /\ query = <<>> /\ keywords = <<>>
    /\ IdleScore
    /\ IdleFetch
    /\ IdleRate
    /\ IdleMulti

\* The loop over the page's works, for keyword 1.
ProcessPage ==
    /\ ~page_done
    /\ results' = PagePapers(discovered_works, crossref_metadata_list, 1)
    /\ page_done' = TRUE
    /\ UNCHANGED <<discovered_works, crossref_metadata_list, inverted_index,
                   abstract_text, query, keywords, scoreVars, fetchVars,
                   rateVars, multiVars>>

NextPage == ProcessPage

SpecPage == InitPage /\ [][NextPage]_vars

\* Positions of the page's non-empty works, in page order.
RECURSIVE NonEmptyFrom(_)
NonEmptyFrom(i) ==
    IF i > Len(discovered_works) THEN <<>>
    ELSE (IF discovered_works[i] = EmptyWork THEN <<>> ELSE <<i>>)
         \o NonEmptyFrom(i + 1)

\* C15: every non-empty work of a page yields exactly one Paper, in page
\* order, whatever its lookup gave (message, None, {}, exception, or no
\* lookup for want of a DOI); title, DOI, citations, year, abstract and
\* open-access flag are the work's, and without a Crossref message the
\* publisher is absent and the ISSN, if any, is one of the venue's.
C15_OnePaperPerWork ==
    page_done =>
        LET at == NonEmptyFrom(1)
        IN  /\ Len(results) = Len(at)
            /\ \A j \in 1..Len(at) :
                  LET w == discovered_works[at[j]]
                      m == crossref_metadata_list[at[j]]
                      p == results[j]
                  IN  /\ p.title = w.title /\ p.doi = w.doi
                      /\ p.citationCount = w.cites
                      /\ p.yearPublished = w.year
                      /\ p.abstract = w.abstract
                      /\ p.isFreelyAvailable = w.oa
                      /\ p.sourceKeyword = 1
                      /\ m.kind # "payload" =>
                            /\ p.publisher = NoneStr
                            /\ \/ p.issn = <<>>
                               \/ /\ w.venue.present
                                  /\ p.issn \in
                                       {clean_issn(w.venue.issn_l)} \cup
                                       {clean_issn(w.venue.issn[c]) :
                                            c \in DOMAIN w.venue.issn}

\* C15 witness: a page whose two works both lack Crossref data, one because
\* it has no DOI and one because its lookup raised, gave two Papers.
C15_Witness ==
    /\ page_done
    /\ Len(discovered_works) = 2 /\ Len(results) = 2
    /\ \E i, j \in 1..2 :
          /\ discovered_works[i].doi = NoneStr
          /\ discovered_works[i] # EmptyWork
          /\ crossref_metadata_list[j] = LookupRaised
    /\ \A j \in 1..2 : results[j].publisher = NoneStr

\* The ISSN candidates of work w with lookup result m in the order Crossref
\* ISSN list, venue-level linking ISSN, venue ISSN list.
CandidatesInOrder(w, m) ==
    (IF m.kind = "payload" THEN m.ISSN ELSE <<>>)
        \o (IF w.venue.present THEN <<w.venue.issn_l>> \o w.venue.issn ELSE <<>>)

\* Positions of the candidates that are non-empty once non-digits are removed.
Qualifying(cs) == {i \in DOMAIN cs : \E c \in DOMAIN cs[i] : cs[i][c] \in Digits}

\* C20: the resolved ISSN is the first candidate, in the order Crossref list,
\* linking ISSN, venue list, that is non-empty after all non-digit characters
\* are removed, with those characters removed; when no candidate qualifies or
\* the resolved ISSN is not a key of the ranking table, quartile, h-index, SJR
\* and impact factor are all absent.
C20_FirstUsableIssn ==
    page_done =>
        LET at == NonEmptyFrom(1)
        IN  \A j \in 1..Len(at) :
              LET cs == CandidatesInOrder(discovered_works[at[j]],
                                          crossref_metadata_list[at[j]])
                  p  == results[j]
              IN  /\ Qualifying(cs) = {} => p.issn = <<>>
                  /\ \A i \in Qualifying(cs) :
                        (\A h \in Qualifying(cs) : i <= h)
                            => p.issn = clean_issn(cs[i])
                  /\ (p.issn = <<>> \/ p.issn \notin DOMAIN sjr_lookup_data)
                        => /\ p.quartile = NoneStr /\ p.h_index = None
                           /\ p.sjrScore = None /\ p.impactFactor = None

\* C20 witness: the Crossref list holds a candidate without digits and then
\* an ISSN the table does not know, the venue's linking ISSN is in the table:
\* the Crossref ISSN is resolved and the ranking fields are absent.
C20_Witness ==
    /\ page_done
    /\ Len(results) = 1
    /\ crossref_metadata_list[1].kind = "payload"
    /\ crossref_metadata_list[1].ISSN = <<DashesOnly, UnknownIssn>>
    /\ discovered_works[1].venue.present
    /\ discovered_works[1].venue.issn_l = KnownIssn
    /\ results[1].issn = <<"5", "6", "7">>
    /\ results[1].quartile = NoneStr /\ results[1].impactFactor = None

\* C20 witness for the venue's list: no earlier candidate qualifies, the ISSN
\* of the venue list is resolved and ranked.
C20_WitnessVenueList ==
    /\ page_done
    /\ Len(results) = 1
    /\ crossref_metadata_list[1].ISSN = <<DashesOnly>>
    /\ discovered_works[1].venue.issn_l = <<>>
    /\ discovered_works[1].venue.issn = <<KnownIssn>>
    /\ results[1].issn = <<"1", "2", "3", "4">>
    /\ results[1].quartile = "Q1"

(***************************************************************************)
(* The de-duplication loop of discover_and_process_multi on its own, over  *)
(* collected Papers that differ in abstract and open-access flag           *)
(***************************************************************************)

\* Bound: Papers returned by one keyword.
MaxReturned == 1

DedupWorks ==
    [id : {"W"}, doi : {NoneStr, "10.1/a"}, title : {"T"},
     year : {Some(ThisYear - 6)}, cites : {9}, abstract : BOOLEAN,
     oa : BOOLEAN, venue : {NoVenue}]

\* The Papers discover_and_process_single can return for keyword kw.
ReturnedPapers(kw) ==
    {BuildPaper(w, m, kw) : w \in DedupWorks, m \in CrossrefResults}
        \ {BuildPaper(w, m, kw) :
               w \in {x \in DedupWorks : ~Truthy(x.doi)},
               m \in CrossrefResults \ {NoMeta}}

ReturnedLists(kw) ==
    UNION {[1..n -> ReturnedPapers(kw)] : n \in 0..MaxReturned}

\* Both keyword pipelines have returned, one a list of Lists1 and the other a
\* list of Lists2, and their lists were collected in the order in which they
\* completed.
InitCollected(Lists1, Lists2) ==
    /\ \E r1 \in Lists1, r2 \in Lists2 :
          /\ pipelines =
                [k \in 1..2 |->
                    [NewPipeline EXCEPT !.pc = "returned", !.requests = 1,
                                        !.last = "no_cursor",
                                        !.results = IF k = 1 THEN r1 ELSE r2,
                                        !.built = Len(IF k = 1 THEN r1 ELSE r2)]]
          /\ all_results \in {r1 \o r2, r2 \o r1}
    /\ kw_sem = KEYWORD_CONCURRENCY_LIMIT
    /\ dedup = <<>>
    /\ merged_results = <<>>
    /\ mpc = "gathering"
    /\ works_left = 0
    /\ IdleScore
    /\ IdlePure
    /\ IdleFetch
    /\ IdleRate

InitDedup == InitCollected(ReturnedLists(1), ReturnedLists(2))

NextDedup == Deduplicate

SpecDedup == InitDedup /\ [][NextDedup]_vars

\* C17: when exactly two collected Papers share an identity key, have equal
\* quality scores, and only one of them has an abstract, the one with the
\* abstract is returned, whichever of the two was collected first.
C17_AbstractBreaksTies ==
    mpc = "done" =>
        \A i, j \in 1..Len(all_results) :
            (/\ i # j
             /\ IdentityKey(all_results[i]) = IdentityKey(all_results[j])
             /\ \A h \in 1..Len(all_results) :
                   IdentityKey(all_results[h]) = IdentityKey(all_results[i])
                       => h \in {i, j}
             /\ all_results[i].qualityScore = all_results[j].qualityScore
             /\ all_results[i].abstract /\ ~all_results[j].abstract)
                => \E r \in 1..Len(merged_results) :
                       merged_results[r] = all_results[i]

\* The case of C17 occurs: two collected Papers of one DOI with equal scores,
\* the one without abstract collected first.
TieWithOneAbstractCollected ==
    /\ mpc = "done"
    /\ Len(all_results) = 2
    /\ Truthy(all_results[1].doi)
    /\ all_results[1].doi = all_results[2].doi
    /\ all_results[1].qualityScore = all_results[2].qualityScore
    /\ ~all_results[1].abstract /\ all_results[2].abstract

\* C17 restricted to Papers that have a DOI (where the score comparison of
\* the loop is live).
AbstractBreaksTiesWithDoi ==
    mpc = "done" =>
        \A i, j \in 1..Len(all_results) :
            (/\ i # j
             /\ Truthy(all_results[i].doi)
             /\ all_results[i].doi = all_results[j].doi
             /\ Cardinality(WithDoi(all_results, all_results[i].doi)) = 2
             /\ all_results[i].qualityScore = all_results[j].qualityScore
             /\ all_results[i].abstract /\ ~all_results[j].abstract)
                => \E r \in 1..Len(merged_results) :
                       merged_results[r] = all_results[i]

(***************************************************************************)
(* split_keywords (search_paper.py)                                        *)
(***************************************************************************)

\* Bound: length of the query.
MaxQueryLen == 4

\* A str is the sequence of its characters.
QueryChars == {"a", "b", " ", ",", ";", "\n"}
Queries == UNION {[1..n -> QueryChars] : n \in 0..MaxQueryLen}

\* The characters str.strip() removes, and those of the class [,\n;].
Whitespace == {" ", "\n"}
Separators == {",", "\n", ";"}

RECURSIVE lstrip(_)
lstrip(s) ==
    IF s # <<>> /\ Head(s) \in Whitespace THEN lstrip(Tail(s)) ELSE s

RECURSIVE rstrip(_)
rstrip(s) ==
    IF s # <<>> /\ s[Len(s)] \in Whitespace
    THEN rstrip(SubSeq(s, 1, Len(s) - 1)) ELSE s

\* Only the leading whitespace removed.
StripLeft(s) == lstrip(s)

\* str.strip()
strip(s) == rstrip(lstrip(s))

\* re.split(r"[,\n;]+", s): the pieces between maximal runs of separators,
\* an empty piece where s starts or ends with a run.
RECURSIVE SplitFrom(_, _, _)
SplitFrom(s, piece, in_run) ==
    IF s = <<>> THEN <<piece>>
    ELSE IF Head(s) \in Separators
         THEN (IF in_run THEN <<>> ELSE <<piece>>)
              \o SplitFrom(Tail(s), <<>>, TRUE)
         ELSE SplitFrom(Tail(s), Append(piece, Head(s)), FALSE)

re_split(s) == SplitFrom(s, <<>>, FALSE)

\* `[p.strip() for p in re.split(...) if p and p.strip()]`
RECURSIVE StrippedParts(_)
StrippedParts(pieces) ==
    IF pieces = <<>> THEN <<>>
    ELSE (IF Head(pieces) # <<>> /\ strip(Head(pieces)) # <<>>
          THEN <<strip(Head(pieces))>> ELSE <<>>)
         \o StrippedParts(Tail(pieces))

\* `return parts if parts else [q.strip()]`
split_keywords(q) ==
    LET parts == StrippedParts(re_split(q))
    IN  IF parts # <<>> THEN parts ELSE <<strip(q)>>

InitSplit ==
    /\ query \in Queries
    /\ keywords = <<>>
    /\ discovered_works = <<>> /\ crossref_metadata_list = <<>>
    /\ results = <<>> /\ page_done = FALSE
    /\ inverted_index = <<>> /\ abstract_text = <<>>
    /\ IdleScore
    /\ IdleFetch
    /\ IdleRate
    /\ IdleMulti

\* `keywords = split_keywords(query)`
SplitKeywords ==
    /\ keywords = <<>>
    /\ keywords' = <<split_keywords(query)>>
    /\ UNCHANGED <<query, discovered_works, crossref_metadata_list, results,
                   page_done, inverted_index, abstract_text, scoreVars,
                   fetchVars, rateVars, multiVars>>

NextSplit == SplitKeywords

SpecSplit == InitSplit /\ [][NextSplit]_vars

\* C21: for every non-blank query split_keywords returns at least one
\* keyword, every keyword is trimmed and non-blank, and a query without comma,
\* semicolon or newline gives the single-element list of the trimmed query.
C21_KeywordsTrimmedNonBlank ==
    (keywords # <<>> /\ strip(query) # <<>>) =>
        /\ Len(keywords[1]) >= 1
        /\ \A i \in 1..Len(keywords[1]) :
              /\ keywords[1][i] # <<>>
              /\ keywords[1][i][1] \notin Whitespace
              /\ keywords[1][i][Len(keywords[1][i])] \notin Whitespace
        /\ (\A c \in 1..Len(query) : query[c] \notin {",", ";", "\n"}) =>
              /\ Len(keywords[1]) = 1
              /\ \E a, b \in 1..Len(query) :
                    /\ keywords[1][1] = SubSeq(query, a, b)
                    /\ \A c \in 1..Len(query) :
                          (c < a \/ c > b) => query[c] = " "
                    /\ query[a] # " " /\ query[b] # " "

\* A query with a separator and padded keywords has been split in two.
C21_Witness ==
    /\ keywords # <<>>
    /\ Len(keywords[1]) = 2
    /\ \E c \in 1..Len(query) : query[c] = " "
    /\ \E c \in 1..Len(query) : query[c] \in {",", ";", "\n"}

\* A query without separator has been trimmed on both sides.
C21_WitnessNoSeparator ==
    /\ keywords # <<>>
    /\ Len(query) >= 3 /\ query[1] = " " /\ query[Len(query)] = " "
    /\ keywords[1] = <<SubSeq(query, 2, Len(query) - 1)>>
    /\ keywords[1][1] # <<>>

\* C22: split_keywords returns deduplicated keywords: no keyword occurs twice
\* in the list, so "graphene, graphene" starts one keyword pipeline.
C22_KeywordsDeduplicated ==
    keywords # <<>> =>
        \A i, j \in 1..Len(keywords[1]) :
            keywords[1][i] = keywords[1][j] => i = j

(***************************************************************************)
(* De-duplication of Papers whose DOIs differ in case or padding           *)
(***************************************************************************)

\* The characters of the stub DOIs.
DoiText(doi) ==
    CASE doi = "10.1/a"  -> <<"1", "0", ".", "1", "/", "a">>
      [] doi = "10.1/A"  -> <<"1", "0", ".", "1", "/", "A">>
      [] doi = " 10.1/a" -> <<" ", "1", "0", ".", "1", "/", "a">>
      [] doi = NoneStr   -> <<>>

\* str.lower()
lower(s) ==
    [i \in DOMAIN s |-> CASE s[i] = "A" -> "a" [] s[i] = "T" -> "t"
                           [] OTHER -> s[i]]

\* Works that carry one DOI in three spellings.
DoiCaseWorks ==
    [id : {"W"}, doi : {"10.1/a", "10.1/A", " 10.1/a"}, title : {"T"},
     year : {Some(ThisYear - 6)}, cites : {9, 99}, abstract : {FALSE},
     oa : {FALSE}, venue : {NoVenue}]

DoiCasePapers(kw) == {BuildPaper(w, NoMeta, kw) : w \in DoiCaseWorks}

DoiCaseLists(kw) ==
    UNION {[1..n -> DoiCasePapers(kw)] : n \in 0..MaxReturned}

InitDoiCase == InitCollected(DoiCaseLists(1), DoiCaseLists(2))

NextDoiCase == Deduplicate

SpecDoiCase == InitDoiCase /\ [][NextDoiCase]_vars

\* The DOI in lower case without surrounding whitespace.
NormalizedDoi(doi) == strip(lower(DoiText(doi)))

\* C29: the identity key is the normalized DOI: collected Papers whose DOIs
\* differ only in letter case or surrounding whitespace count as the same
\* identity, and only one of them survives.
C29_NormalizedDoiIdentity ==
    mpc = "done" =>
        \A i, j \in 1..Len(merged_results) :
            NormalizedDoi(merged_results[i].doi)
                = NormalizedDoi(merged_results[j].doi) => i = j

\* C29 for Papers whose DOIs are spelled alike: only one survives.
SameSpellingIdentity ==
    mpc = "done" =>
        \A i, j \in 1..Len(merged_results) :
            merged_results[i].doi = merged_results[j].doi => i = j

(***************************************************************************)
(* deconstruct_abstract (search_paper.py and research_service.py)          *)
(***************************************************************************)

\* Bounds: positions listed for a word, largest position.
MaxPositions == 2
MaxPosition == 2

\* A listed position: an int, or a value that is not an int (a str, None).
IntAt(n) == [int |-> TRUE, v |-> n]
NotAnInt == [int |-> FALSE, v |-> 0]
PositionValues == {IntAt(n) : n \in (-1)..MaxPosition} \cup {NotAnInt}

\* The value stored for a word: a list of positions, or something else.
ListOf(at) == [list |-> TRUE, at |-> at]
NotAList == [list |-> FALSE, at |-> <<>>]
IndexValues ==
    {NotAList} \cup
    {ListOf(at) : at \in UNION {[1..n -> PositionValues] : n \in 0..MaxPositions}}

AbstractWords == {"a", "b"}

\* The argument: None, a dict (its items in insertion order, words distinct),
\* or a non-empty value that is not a dict.
IndexNone == [kind |-> "None", items |-> <<>>]
IndexNotADict == [kind |-> "list", items |-> <<>>]
IndexDict(items) == [kind |-> "dict", items |-> items]
InvertedIndexes ==
    {IndexNone, IndexNotADict} \cup
    {IndexDict(items) :
        items \in {it \in UNION {[1..n -> [word : AbstractWords,
                                           val : IndexValues]] :
                                    n \in 0..Cardinality(AbstractWords)} :
                      \A i, j \in DOMAIN it :
                          i # j => it[i].word # it[j].word}}

\* What a call returns: None, or a str (the sequence of its words, joined by
\* single spaces; <<>> is the empty string).  An exception of the try block
\* is a result of kind "AttributeError" or "TypeError" until it is caught.
AbstractNone == [kind |-> "None", words |-> <<>>]
AbstractStr(words) == [kind |-> "str", words |-> words]

\* `[val[0] for val in inverted_index.values() if isinstance(val, list) and val]`
RECURSIVE valid_indices(_)
valid_indices(items) ==
    IF items = <<>> THEN <<>>
    ELSE (IF Head(items).val.list /\ Head(items).val.at # <<>>
          THEN <<Head(items).val.at[1]>> ELSE <<>>)
         \o valid_indices(Tail(items))

\* The first element instead of the largest.
FirstOf(xs) == xs[1].v

\* max() of a non-empty list of ints.
MaxOf(xs) == CHOOSE m \in {xs[i].v : i \in DOMAIN xs} :
                 \A i \in DOMAIN xs : xs[i].v <= m

\* `for index in indices: if isinstance(index, int) and
\*  0 <= index < len(word_list): word_list[index] = word`
RECURSIVE WriteWord(_, _, _)
WriteWord(word_list, word, indices) ==
    IF indices = <<>> THEN word_list
    ELSE LET index == Head(indices)
             next  == IF index.int /\ 0 <= index.v /\ index.v < Len(word_list)
                      THEN [word_list EXCEPT ![index.v + 1] = word]
                      ELSE word_list
         IN  WriteWord(next, word, Tail(indices))

\* `for word, indices in inverted_index.items(): if isinstance(indices, list):`
RECURSIVE WriteWords(_, _)
WriteWords(word_list, items) ==
    IF items = <<>> THEN word_list
    ELSE WriteWords(IF Head(items).val.list
                    THEN WriteWord(word_list, Head(items).word,
                                   Head(items).val.at)
                    ELSE word_list,
                    Tail(items))

\* `" ".join(w for w in word_list if w).strip()`
JoinWords(word_list) ==
    LET NonEmpty(w) == w # "" IN AbstractStr(SelectSeq(word_list, NonEmpty))

\* The try block: its return value, or the exception it raises
\* (.values() of a non-dict; max() over, or + 1 on, a value that is not an int).
TryBlock(ii) ==
    IF ii.kind # "dict" THEN [kind |-> "AttributeError", words |-> <<>>]
    ELSE LET firsts == valid_indices(ii.items)
         IN  IF firsts = <<>> THEN AbstractNone
             ELSE IF \E i \in DOMAIN firsts : ~firsts[i].int
                  THEN [kind |-> "TypeError", words |-> <<>>]
                  ELSE LET max_index == MaxOf(firsts)
                           word_list == [i \in 1..(max_index + 1) |-> ""]
                       IN  JoinWords(WriteWords(word_list, ii.items))

\* `if not inverted_index: return None`, the try block, `except Exception:
\* return None`.
WithExcept(ii) ==
    IF ii.kind = "None" \/ (ii.kind = "dict" /\ ii.items = <<>>)
    THEN AbstractNone
    ELSE LET r == TryBlock(ii)
         IN  IF r.kind \in {"AttributeError", "TypeError"} THEN AbstractNone
             ELSE r

\* search_paper.py deconstruct_abstract
deconstruct_abstract(ii) == WithExcept(ii)

\* research_service.py deconstruct_abstract: the same statements.
research_service_deconstruct_abstract(ii) == WithExcept(ii)

InitAbstract ==
    /\ inverted_index \in InvertedIndexes
    /\ abstract_text = <<>>
    /\ discovered_works = <<>> /\ crossref_metadata_list = <<>>
    /\ results = <<>> /\ page_done = FALSE
    /\ query = <<>> /\ keywords = <<>>
    /\ IdleScore
    /\ IdleFetch
    /\ IdleRate
    /\ IdleMulti

Deconstruct ==
    /\ abstract_text = <<>>
    /\ abstract_text' =
          <<[sp |-> deconstruct_abstract(inverted_index),
             rs |-> research_service_deconstruct_abstract(inverted_index)]>>
    /\ UNCHANGED <<inverted_index, discovered_works, crossref_metadata_list,
                   results, page_done, query, keywords, scoreVars, fetchVars,
                   rateVars, multiVars>>

NextAbstract == Deconstruct

SpecAbstract == InitAbstract /\ [][NextAbstract]_vars

\* Every listed position of index ii, with its word.
Occurrences(ii) ==
    {oc \in (DOMAIN ii.items) \X (1..MaxPositions) :
        oc[2] \in DOMAIN ii.items[oc[1]].val.at}

PositionOf(ii, oc) == ii.items[oc[1]].val.at[oc[2]]

\* The words of ii occupy pairwise distinct positions 0..n-1.
CoversPositions(ii) ==
    /\ ii.kind = "dict" /\ ii.items # <<>>
    /\ \A i \in DOMAIN ii.items :
          ii.items[i].val.list /\ ii.items[i].val.at # <<>>
    /\ \A oc \in Occurrences(ii) : PositionOf(ii, oc).int
    /\ \A oc, od \in Occurrences(ii) :
          PositionOf(ii, oc).v = PositionOf(ii, od).v => oc = od
    /\ {PositionOf(ii, oc).v : oc \in Occurrences(ii)}
          = 0..(Cardinality(Occurrences(ii)) - 1)

\* The words of such an index in position order.
InPositionOrder(ii) ==
    [p \in 1..Cardinality(Occurrences(ii)) |->
        ii.items[(CHOOSE oc \in Occurrences(ii) :
                      PositionOf(ii, oc).v = p - 1)[1]].word]

\* C18: for an inverted index whose words occupy pairwise distinct positions
\* 0..n-1, both functions return the n words in position order joined by
\* single spaces, also when a word occurs again beyond every first position.
C18_WordsInPositionOrder ==
    (abstract_text # <<>> /\ CoversPositions(inverted_index)) =>
        /\ abstract_text[1].sp = AbstractStr(InPositionOrder(inverted_index))
        /\ abstract_text[1].rs = AbstractStr(InPositionOrder(inverted_index))

\* C18 holds when every word is listed once ({"a": [0], "b": [1]} gives "a b").
WordsListedOnceInPositionOrder ==
    (/\ abstract_text # <<>> /\ CoversPositions(inverted_index)
     /\ \A i \in DOMAIN inverted_index.items :
           Len(inverted_index.items[i].val.at) = 1) =>
        /\ abstract_text[1].sp = AbstractStr(InPositionOrder(inverted_index))
        /\ abstract_text[1].rs = AbstractStr(InPositionOrder(inverted_index))

\* An index that is absent, empty or structurally invalid: not a dict, a
\* value that is not a list, an empty position list, a position that is not
\* an int or is negative.
StructurallyInvalid(ii) ==
    \/ ii.kind # "dict"
    \/ ii.items = <<>>
    \/ \E i \in DOMAIN ii.items :
          \/ ~ii.items[i].val.list
          \/ ii.items[i].val.at = <<>>
          \/ \E c \in DOMAIN ii.items[i].val.at :
                \/ ~ii.items[i].val.at[c].int
                \/ ii.items[i].val.at[c].v < 0

\* C19: deconstruct_abstract never raises, and returns None for an empty,
\* absent or structurally invalid inverted index.
C19_InvalidIndexGivesNone ==
    abstract_text # <<>> =>
        /\ abstract_text[1].sp.kind \in {"None", "str"}
        /\ abstract_text[1].rs.kind \in {"None", "str"}
        /\ StructurallyInvalid(inverted_index) =>
              /\ abstract_text[1].sp = AbstractNone
              /\ abstract_text[1].rs = AbstractNone

\* The part of C19 that holds: no call raises, and None, {} and a value that
\* is not a dict give None.
NeverRaisesAndNoneForNoIndex ==
    abstract_text # <<>> =>
        /\ abstract_text[1].sp.kind \in {"None", "str"}
        /\ abstract_text[1].rs.kind \in {"None", "str"}
        /\ (inverted_index.kind # "dict" \/ inverted_index.items = <<>>) =>
              /\ abstract_text[1].sp = AbstractNone
              /\ abstract_text[1].rs = AbstractNone

\* The same dict with its entries in another iteration order.
Reorderings(items) ==
    LET n == Len(items)
    IN  {[i \in 1..n |-> items[f[i]]] :
            f \in {g \in [1..n -> 1..n] : \A i, j \in 1..n :
                                             g[i] = g[j] => i = j}}

\* Two different words of ii list the same position.
SharePosition(ii) ==
    \E oc, od \in Occurrences(ii) :
        /\ oc[1] # od[1]
        /\ PositionOf(ii, oc).int /\ PositionOf(ii, od).int
        /\ PositionOf(ii, oc).v = PositionOf(ii, od).v

\* The text returned for ii is the text returned for every reordering of its
\* entries, and a second application to ii returns it again.
OrderIndependent(ii) ==
    /\ deconstruct_abstract(ii) = abstract_text[1].sp
    /\ research_service_deconstruct_abstract(ii) = abstract_text[1].rs
    /\ ii.kind = "dict" =>
          \A items \in Reorderings(ii.items) :
              /\ deconstruct_abstract(IndexDict(items)) = abstract_text[1].sp
              /\ research_service_deconstruct_abstract(IndexDict(items))
                    = abstract_text[1].rs

\* C30: for a fixed inverted index, deconstruct_abstract returns the same text
\* whatever order the index's entries are iterated in, including when two
\* words list the same position, and applying it again gives the same result.
C30_SameTextInAnyOrder ==
    abstract_text # <<>> => OrderIndependent(inverted_index)

\* C30 amended: the text does not depend on the iteration order when no two
\* words list the same position, and applying the function again gives the
\* same result; where two words list one position, the word iterated later
\* is the one written there.
SameTextInAnyOrderWithoutSharedPosition ==
    (abstract_text # <<>> /\ ~SharePosition(inverted_index)) =>
        OrderIndependent(inverted_index)

\* Two words at different positions, given in one of two possible orders,
\* have been joined.
TwoWordsAtDifferentPositionsJoined ==
    /\ abstract_text # <<>>
    /\ inverted_index.kind = "dict" /\ Len(inverted_index.items) = 2
    /\ ~SharePosition(inverted_index)
    /\ Cardinality(Reorderings(inverted_index.items)) = 2
    /\ abstract_text[1].sp.kind = "str" /\ Len(abstract_text[1].sp.words) = 2
    /\ abstract_text[1].rs = abstract_text[1].sp

(***************************************************************************)
(* discover_many_keywords (research_service.py): the Crossref lookups of   *)
(* one keyword's works                                                     *)
(***************************************************************************)

\* `tasks = [_crossref_get(client, w.get("doi")) for w in works]` and
\* `await asyncio.gather(*tasks, ...)` for a keyword with NumTasks works.
InitGather ==
    /\ tasks = [k \in {NewTask(1)} |-> NumTasks]
    /\ semaphore = CONCURRENT_REQUEST_LIMIT
    /\ crossref_seen = FALSE
    /\ failures_left = MaxFailures
    /\ module = "research_service"
    /\ clock = 0 /\ callers = <<>> /\ last_request_time = <<>>
    /\ released = <<>>
    /\ IdleScore
    /\ IdlePure
    /\ IdleMulti

NextGather ==
    \E k \in BagToSet(tasks) :
        \/ CrossrefGetCall(k)
        \/ CrossrefGetWakeRateLimit(k)
        \/ CrossrefGetResponse(k)
        \/ CrossrefGetWakeBackoff(k)

SpecGather == InitGather /\ [][NextGather]_vars

\* C25: while a keyword's works are enriched in discover_many_keywords, at
\* most CONCURRENT_REQUEST_LIMIT Crossref fetches are in flight.
C25_LookupsInFlightBounded ==
    module = "research_service" => InFlight <= CONCURRENT_REQUEST_LIMIT

\* As many lookups are in flight as the keyword has works.
AllLookupsInFlight ==
    /\ module = "research_service"
    /\ InFlight = NumTasks

(***************************************************************************)
(* discover_many_keywords (research_service.py): Papers and de-duplication *)
(***************************************************************************)

\* Bound: works _openalex_fetch_keyword returns for one keyword.
MaxManyWorks == 1

\* The characters of the stub titles.
TitleText(title) ==
    CASE title = "T" -> <<"T">>
      [] title = NoneStr -> <<>>

\* Works of the stub primary source: one DOI in two spellings, the much-cited
\* version without abstract and the less-cited one with abstract, and a work
\* without DOI.
ManyWorks ==
    {[id |-> "W", doi |-> d, title |-> "T", year |-> Some(ThisYear - 6),
      cites |-> c, abstract |-> (c = 9), oa |-> FALSE, venue |-> NoVenue] :
        d \in {"10.1/a", "10.1/A"}, c \in {9, 99}}
    \cup
    {[id |-> "W", doi |-> NoneStr, title |-> "T", year |-> Some(ThisYear - 6),
      cites |-> 9, abstract |-> FALSE, oa |-> FALSE, venue |-> NoVenue]}

\* `if not work or isinstance(meta, Exception) or meta is None: continue`
ManySkips(w, meta) ==
    w = EmptyWork \/ meta.kind = "exception" \/ meta.kind = "None"

\* _enrich_with_sjr: `_clean_issn(issn_list[0]) if issn_list else None`
FirstIssnCleaned(issn_list) ==
    IF issn_list = <<>> THEN <<>> ELSE clean_issn(issn_list[1])

\* The paper dict built for a work and its Crossref message, SJR-enriched and
\* scored.
ManyPaper(w, meta) ==
    LET cleaned == FirstIssnCleaned(meta.ISSN)
        ranked  == cleaned # <<>> /\ cleaned \in DOMAIN sjr_lookup_data
        base    == [title |-> w.title, doi |-> w.doi,
                    citationCount |-> w.cites, publisher |-> meta.publisher,
                    yearPublished |-> w.year, abstract |-> w.abstract,
                    isFreelyAvailable |-> w.oa, issn |-> cleaned,
                    quartile |-> IF ranked THEN sjr_lookup_data[cleaned].quartile
                                 ELSE NoneStr,
                    h_index |-> IF ranked
                                THEN Some(sjr_lookup_data[cleaned].h_index)
                                ELSE None,
                    sjrScore |-> IF ranked
                                 THEN Some(sjr_lookup_data[cleaned].sjr)
                                 ELSE None,
                    qualityScore |-> 0]
    IN  [base EXCEPT !.qualityScore = calc_quality_score(base, ThisYear)]

\* `for work, meta in zip(works, meta_list)`: the papers that get built.
RECURSIVE ManyPapers(_, _)
ManyPapers(ws, ms) ==
    IF ws = <<>> \/ ms = <<>> THEN <<>>
    ELSE (IF ManySkips(Head(ws), Head(ms)) THEN <<>>
          ELSE <<ManyPaper(Head(ws), Head(ms))>>)
         \o ManyPapers(Tail(ws), Tail(ms))

\* `key = (paper.get("doi") or "").lower().strip()`, else the title's.
ManyKey(p) ==
    LET by_doi == strip(lower(DoiText(p.doi)))
    IN  IF by_doi # <<>> THEN by_doi ELSE strip(lower(TitleText(p.title)))

\* `paper.get("qualityScore", 0) > existing.get("qualityScore", 0) or
\*  (paper.get("abstract") and not existing.get("abstract"))`
ManyReplaces(p, existing) ==
    \/ p.qualityScore > existing.qualityScore
    \/ p.abstract /\ ~existing.abstract

\* The de-dupe of one paper: `if not key: continue`, `results.get(key)`.
ManyDedupStep(d, p) ==
    LET key == ManyKey(p)
    IN  IF key = <<>> THEN d
        ELSE IF ~DictHas(d, key) THEN DictPut(d, key, p)
        ELSE IF ManyReplaces(p, DictGet(d, key)) THEN DictPut(d, key, p)
        ELSE d

RECURSIVE ManyDedupLoop(_, _)
ManyDedupLoop(d, rs) ==
    IF rs = <<>> THEN d
    ELSE ManyDedupLoop(ManyDedupStep(d, Head(rs)), Tail(rs))

\* discover_many_keywords is entered with NumKeywords keywords; all_results
\* lists the papers in the order in which they reach the de-dupe.
InitMany ==
    /\ pipelines = [k \in 1..NumKeywords |-> NewPipeline]
    /\ kw_sem = 0
    /\ all_results = <<>>
    /\ dedup = <<>>
    /\ merged_results = <<>>
    /\ mpc = "gathering"
    /\ works_left = 0
    /\ module = "research_service"
    /\ clock = 0 /\ callers = <<>> /\ last_request_time = <<>>
    /\ released = <<>>
    /\ IdleScore
    /\ IdlePure
    /\ IdleFetch

\* One iteration of `for kw in ...`: the works _openalex_fetch_keyword
\* returned, what gather returned for them, and the loop over both.
ManyKeyword(k) ==
    /\ mpc = "gathering"
    /\ pipelines[k].pc = "pending"
    /\ \A j \in 1..(k - 1) : pipelines[j].pc = "returned"
    /\ \E n \in 0..MaxManyWorks :
        \E ws \in [1..n -> ManyWorks], ms \in [1..n -> CrossrefResults] :
          /\ \A i \in 1..n : ms[i] \in MetaFor(ws[i])
          /\ discovered_works' = ws
          /\ crossref_metadata_list' = ms
          /\ results' = ManyPapers(ws, ms)
          /\ all_results' = all_results \o results'
          /\ dedup' = ManyDedupLoop(dedup, results')
    /\ pipelines' = [pipelines EXCEPT ![k].pc = "returned"]
    /\ UNCHANGED <<kw_sem, merged_results, mpc, works_left, page_done,
                   inverted_index, abstract_text, query, keywords, scoreVars,
                   fetchVars, rateVars>>

\* `return list(results.values())`
ManyReturn ==
    /\ mpc = "gathering"
    /\ \A k \in DOMAIN pipelines : pipelines[k].pc = "returned"
    /\ merged_results' = [i \in 1..Len(dedup) |-> dedup[i].paper]
    /\ mpc' = "done"
    /\ UNCHANGED <<pipelines, kw_sem, all_results, dedup, works_left,
                   scoreVars, pureVars, fetchVars, rateVars>>

NextMany ==
    \/ \E k \in DOMAIN pipelines : ManyKeyword(k)
    \/ ManyReturn

SpecMany == InitMany /\ [][NextMany]_vars

\* The rule of the claim: replace on a strictly higher score, or on equal
\* scores when the later paper has an abstract and the stored one has none.
ClaimedReplaces(p, existing) ==
    \/ p.qualityScore > existing.qualityScore
    \/ /\ p.qualityScore = existing.qualityScore
       /\ p.abstract /\ ~existing.abstract

RECURSIVE ClaimedDedup(_, _)
ClaimedDedup(d, rs) ==
    IF rs = <<>> THEN d
    ELSE LET p   == Head(rs)
             key == ManyKey(p)
             d2  == IF key = <<>> THEN d
                    ELSE IF ~DictHas(d, key) THEN DictPut(d, key, p)
                    ELSE IF ClaimedReplaces(p, DictGet(d, key))
                         THEN DictPut(d, key, p)
                         ELSE d
         IN  ClaimedDedup(d2, Tail(rs))

\* C23: in discover_many_keywords a stored Paper is replaced only if the
\* later Paper has a strictly higher score, or the scores are equal and the
\* later one has an abstract while the stored one has none; a later Paper
\* with a strictly lower score never replaces the stored one.
C23_ReplacedOnlyOnScoreOrTie ==
    dedup = ClaimedDedup(<<>>, all_results)

\* What holds of the replacement: the stored Paper of a key is the first one
\* of that key, or a later one that had a higher score or brought an abstract.
StoredOutscoresOrHasAbstract ==
    \A i \in 1..Len(dedup) : \A j \in 1..Len(all_results) :
        ManyKey(all_results[j]) = dedup[i].key =>
            \/ dedup[i].paper.qualityScore >= all_results[j].qualityScore
            \/ dedup[i].paper.abstract

\* C26: a work whose Crossref lookup returned nothing (404, retries
\* exhausted, another HTTP error, no DOI) is still emitted as a Paper with the
\* primary-source fields: every work of the keyword has its Paper.
C26_EveryWorkEmitted ==
    /\ Len(results) = Len(NonEmptyFrom(1))
    /\ \A i \in 1..Len(results) :
          /\ results[i].doi = discovered_works[NonEmptyFrom(1)[i]].doi
          /\ results[i].title = discovered_works[NonEmptyFrom(1)[i]].title

\* C26 for the works whose lookup returned a message: each has its Paper.
EnrichedWorksEmitted ==
    (\A i \in 1..Len(crossref_metadata_list) :
        crossref_metadata_list[i].kind = "payload") =>
            C26_EveryWorkEmitted

(***************************************************************************)
(* discover_and_process (fetch_data.py)                                    *)
(***************************************************************************)

\* fetch_data.py calculate_quality_score: the statements of
\* research_service.py calc_quality_score.
fetch_data_calculate_quality_score(p, cur) == calc_quality_score(p, cur)

\* `if not w or isinstance(meta, Exception) or not meta: continue`
FetchDataSkips(w, meta) == w = EmptyWork \/ meta.kind # "payload"

\* final_paper: `clean_issn(issn_list[0]) if issn_list else None`, the
\* ranking fields, the score.
FetchDataPaper(w, meta) ==
    LET cleaned == FirstIssnCleaned(meta.ISSN)
        ranked  == cleaned # <<>> /\ cleaned \in DOMAIN sjr_lookup_data
        base    == [title |-> w.title, doi |-> w.doi,
                    citationCount |-> w.cites, publisher |-> meta.publisher,
                    yearPublished |-> w.year, abstract |-> w.abstract,
                    isFreelyAvailable |-> w.oa, issn |-> cleaned,
                    quartile |-> IF ranked THEN sjr_lookup_data[cleaned].quartile
                                 ELSE NoneStr,
                    h_index |-> IF ranked
                                THEN Some(sjr_lookup_data[cleaned].h_index)
                                ELSE None,
                    sjrScore |-> IF ranked
                                 THEN Some(sjr_lookup_data[cleaned].sjr)
                                 ELSE None,
                    qualityScore |-> 0]
    IN  [base EXCEPT !.qualityScore =
                         fetch_data_calculate_quality_score(base, ThisYear)]

\* `for w, meta in zip(works, crossref_data)`: the Papers appended.
RECURSIVE FetchDataPapers(_, _)
FetchDataPapers(ws, ms) ==
    IF ws = <<>> \/ ms = <<>> THEN <<>>
    ELSE (IF FetchDataSkips(Head(ws), Head(ms)) THEN <<>>
          ELSE <<FetchDataPaper(Head(ws), Head(ms))>>)
         \o FetchDataPapers(Tail(ws), Tail(ms))

\* `for page in range(1, fetch_pages + 1)` goes on after this page.
ForContinues(pages_fetched, fetch_pages) == pages_fetched < fetch_pages

\* discover_and_process is entered: all_results is its local list,
\* merged_results what the caller receives, pipelines[1] the page loop.
InitFetchData ==
    /\ pipelines = <<[NewPipeline EXCEPT !.pc = "running"]>>
    /\ kw_sem = 0
    /\ all_results = <<>>
    /\ dedup = <<>>
    /\ merged_results = <<>>
    /\ mpc = "paging"
    /\ works_left = MaxWorks
    /\ IdleScore
    /\ IdlePure
    /\ IdleFetch
    /\ IdleRate

\* One iteration of the page loop: the request and raise_for_status() stand
\* outside any try, so an HTTP error status or a transport error leaves the
\* function as an exception; an empty page ends the loop; otherwise the
\* works are enriched and their Papers appended.  After the loop
\* `return all_results`.
FetchDataPage ==
    /\ mpc = "paging"
    /\ pipelines[1].pc = "running"
    /\ \E o \in PrimaryOutcomes, n \in 0..Min(works_left, MaxPageWorks) :
        \E ws \in [1..n -> ManyWorks], ms \in [1..n -> CrossrefResults] :
          /\ \A i \in 1..n : ms[i] \in MetaFor(ws[i])
          /\ o # "page" => n = 0
          /\ LET q      == pipelines[1]
                 asked  == [q EXCEPT !.requests = q.requests + 1, !.last = o]
                 papers == FetchDataPapers(ws, ms)
                 paged  == [asked EXCEPT !.pages_fetched = q.pages_fetched + 1,
                                         !.built = q.built + Len(papers)]
             IN  CASE o # "page" ->
                         /\ pipelines' = <<[asked EXCEPT !.pc = "raised",
                                                         !.failed = 1]>>
                         /\ mpc' = "raised"
                         /\ UNCHANGED <<all_results, merged_results, works_left>>
                   [] n = 0 ->
                         /\ pipelines' = <<[asked EXCEPT !.pc = "returned",
                                                         !.last = "empty"]>>
                         /\ mpc' = "done"
                         /\ merged_results' = all_results
                         /\ UNCHANGED <<all_results, works_left>>
                   [] ForContinues(paged.pages_fetched, FetchPages) ->
                         /\ pipelines' = <<paged>>
                         /\ all_results' = all_results \o papers
                         /\ works_left' = works_left - n
                         /\ UNCHANGED <<mpc, merged_results>>
                   [] OTHER ->
                         /\ pipelines' = <<[paged EXCEPT !.pc = "returned"]>>
                         /\ all_results' = all_results \o papers
                         /\ works_left' = works_left - n
                         /\ mpc' = "done"
                         /\ merged_results' = all_results'
    /\ UNCHANGED <<kw_sem, dedup, scoreVars, pureVars, fetchVars, rateVars>>

NextFetchData == FetchDataPage

SpecFetchData == InitFetchData /\ [][NextFetchData]_vars

\* C27: in discover_and_process an HTTP error status from the primary source
\* on page k ends pagination and the Papers accumulated from pages 1..k-1 are
\* returned, with no exception escaping to the caller.
C27_HttpErrorReturnsEarlierPages ==
    pipelines[1].last = "http_error" =>
        /\ pipelines[1].pc = "returned"
        /\ mpc = "done"
        /\ merged_results = all_results

\* What holds: an empty page ends pagination and the Papers of the earlier
\* pages are returned.
EmptyPageReturnsEarlierPages ==
    pipelines[1].last = "empty" =>
        /\ pipelines[1].pc = "returned"
        /\ mpc = "done"
        /\ merged_results = all_results

(***************************************************************************)
(* _openalex_fetch_keyword and _openalex_fetch_keyword_fallback            *)
(* (research_service.py): the filter query and its fallback                *)
(***************************************************************************)

\* Bound: the `pages` argument of one call (2 by default).
OpenAlexPages == 2

\* What one OpenAlex request ends in: a 200 with works, a 200 with no works,
\* a 200 whose body is not JSON, an HTTP error status, or a transport error.
HttpErrorCodes == {400, 403, 404, 429, 500}
OpenAlexOutcomes ==
    {[kind |-> k, code |-> 200] : k \in {"works", "empty", "bad_body"}}
        \cup {[kind |-> "status", code |-> c] : c \in HttpErrorCodes}
        \cup {[kind |-> "transport", code |-> 0]}

\* A variant of FallsBackOnStatus in which every error status falls back.
FallsBackOnAnyStatus(code) == TRUE

\* `e.response.status_code in (403, 400)`
FallsBackOnStatus(code) == code \in {403, 400}

\* The except clause of the filter loop that catches what a request ending in
\* outcome o raises: raise_for_status raises HTTPStatusError, client.get a
\* RequestError and r.json() a ValueError, both caught by `except Exception`.
OpenAlexExceptClause(o) ==
    CASE o.kind = "status" -> "http_status"
      [] o.kind \in {"transport", "bad_body"} -> "generic"
      [] OTHER -> "none"

\* `for page in range(1, pages + 1)` has another iteration after `page`.
PageLoopContinues(page, pages) == page < pages

\* A call of _openalex_fetch_keyword: where it is, the page of the loop it is
\* in, the requests it has sent (query kind, page and outcome), the pages of
\* works in `collected` and in the fallback's `out`, and whether the fallback
\* was called.
NewFetchKeyword ==
    [pc |-> "filter", page |-> 1, log |-> <<>>, collected |-> <<>>,
     out |-> <<>>, fell_back |-> FALSE]

InitOpenAlex ==
    /\ pipelines = <<NewFetchKeyword>>
    /\ kw_sem = 0
    /\ all_results = <<>>
    /\ dedup = <<>>
    /\ merged_results = <<>>
    /\ mpc = "fetching"
    /\ works_left = 0
    /\ module = "research_service"
    /\ clock = 0 /\ callers = <<>> /\ last_request_time = <<>>
    /\ released = <<>>
    /\ IdleScore
    /\ IdlePure
    /\ IdleFetch

\* One iteration of the filter loop of _openalex_fetch_keyword, from the
\* request's return to the next request or to `return collected`.
FilterRequest ==
    LET k == pipelines[1]
    IN  /\ mpc = "fetching"
        /\ k.pc = "filter"
        /\ \E o \in OpenAlexOutcomes :
             LET logged == [k EXCEPT !.log = Append(k.log,
                                [query |-> "filter", page |-> k.page, outcome |-> o])]
                 returns(c) == [logged EXCEPT !.pc = "returned", !.collected = c]
                 fallback == [logged EXCEPT !.pc = "fallback", !.page = 1,
                                            !.fell_back = TRUE]
                 clause == OpenAlexExceptClause(o)
             IN  pipelines' =
                   <<CASE o.kind = "works" ->
                            IF PageLoopContinues(k.page, OpenAlexPages)
                            THEN [logged EXCEPT !.page = k.page + 1,
                                     !.collected = Append(k.collected, <<"filter", k.page>>)]
                            ELSE returns(Append(k.collected, <<"filter", k.page>>))
                       [] o.kind = "empty" -> returns(k.collected)
                       [] clause = "http_status" ->
                            IF FallsBackOnStatus(o.code) THEN fallback
                            ELSE returns(k.collected)
                       [] OTHER -> fallback>>
        /\ UNCHANGED <<kw_sem, all_results, dedup, merged_results, mpc,
                       works_left, scoreVars, pureVars, fetchVars, rateVars>>

\* One iteration of the loop of _openalex_fetch_keyword_fallback, from the
\* request's return to the next request or to `return out`, after which the
\* caller extends `collected`, breaks and returns.
FallbackRequest ==
    LET k == pipelines[1]
    IN  /\ mpc = "fetching"
        /\ k.pc = "fallback"
        /\ \E o \in OpenAlexOutcomes :
             LET logged == [k EXCEPT !.log = Append(k.log,
                                [query |-> "search", page |-> k.page, outcome |-> o])]
                 returns(out) == [logged EXCEPT !.pc = "returned", !.out = out,
                                                !.collected = k.collected \o out]
             IN  pipelines' =
                   <<IF o.kind = "works"
                     THEN IF PageLoopContinues(k.page, OpenAlexPages)
                          THEN [logged EXCEPT !.page = k.page + 1,
                                   !.out = Append(k.out, <<"search", k.page>>)]
                          ELSE returns(Append(k.out, <<"search", k.page>>))
                     ELSE returns(k.out)>>
        /\ UNCHANGED <<kw_sem, all_results, dedup, merged_results, mpc,
                       works_left, scoreVars, pureVars, fetchVars, rateVars>>

\* The caller receives `collected`.
FetchKeywordReturns ==
    /\ mpc = "fetching"
    /\ pipelines[1].pc = "returned"
    /\ all_results' = pipelines[1].collected
    /\ mpc' = "done"
    /\ UNCHANGED <<pipelines, kw_sem, dedup, merged_results, works_left,
                   scoreVars, pureVars, fetchVars, rateVars>>

NextOpenAlex ==
    \/ FilterRequest
    \/ FallbackRequest
    \/ FetchKeywordReturns

SpecOpenAlex == InitOpenAlex /\ [][NextOpenAlex]_vars

\* The filter request that failed with an HTTP error status, if any.
FilterFailedWithStatus(codes) ==
    \E i \in 1..Len(pipelines[1].log) :
        LET r == pipelines[1].log[i]
        IN  r.query = "filter" /\ r.outcome.kind = "status" /\ r.outcome.code \in codes

\* C33: whenever the filter-based request fails with an HTTP error status,
\* 403 or any other, _openalex_fetch_keyword calls the 'search=' fallback.
C33_FallbackOnAnyHttpError ==
    FilterFailedWithStatus(HttpErrorCodes) => pipelines[1].fell_back

\* What holds: the fallback is called when the filter request fails with 403
\* or 400, or with a transport error or an unparseable body, and for no other
\* reason; any other error status ends the call with what was collected.
FallbackOn403Or400OrException ==
    LET k == pipelines[1]
    IN  /\ FilterFailedWithStatus({403, 400}) => k.fell_back
        /\ FilterFailedWithStatus(HttpErrorCodes \ {403, 400}) =>
              /\ ~k.fell_back
              /\ k.pc = "returned"
              /\ \A i \in 1..Len(k.log) : k.log[i].query = "filter"
        /\ k.fell_back =>
              \E i \in 1..Len(k.log) :
                  /\ k.log[i].query = "filter"
                  /\ \/ k.log[i].outcome.kind \in {"transport", "bad_body"}
                     \/ k.log[i].outcome.code \in {403, 400}

\* A call whose filter request got a 403 on its second page returned the first
\* filter page followed by the pages of the fallback.
FallbackAfter403 ==
    /\ mpc = "done"
    /\ FilterFailedWithStatus({403})
    /\ all_results = <<<<"filter", 1>>, <<"search", 1>>, <<"search", 2>>>>

(***************************************************************************)
(* Cursor pagination of discover_and_process_single (search_paper.py)      *)
(***************************************************************************)

\* Bound: the page budget fetch_pages of the keyword.
CursorPages == 3

\* What the source may put in meta.next_cursor: nothing (None), an empty
\* string, the initial cursor again, or an opaque value.
OpaqueCursors == {"c1", "c2", "c3"}
NextCursors == {NoneStr, "", "*"} \cup OpaqueCursors

\* What a request ends in: a page of works carrying a continuation cursor, a
\* page without works, an HTTP error status, or any other exception (from the
\* request, from parsing the body or from building a Paper).
CursorResponses ==
    {[outcome |-> "page", next_cursor |-> c] : c \in NextCursors}
        \cup {[outcome |-> o, next_cursor |-> NoneStr] : o \in {"empty", "http_error", "error"}}

\* A variant of AdvanceCursor that keeps the cursor of the request just made.
KeepCursor(cursor, next_cursor) == cursor

\* `params["cursor"] = next_cursor`
AdvanceCursor(cursor, next_cursor) == next_cursor

\* `if not next_cursor: break`
NoNextCursor(next_cursor) == next_cursor \in {NoneStr, ""}

\* The keyword's pipeline before its first request: params["cursor"] is "*";
\* `requested` lists the cursors of the requests sent and `responses` what
\* each of them ended in.
NewCursorPipeline ==
    [pc |-> "paging", cursor |-> "*", pages_fetched |-> 0,
     requested |-> <<>>, responses |-> <<>>]

InitCursor ==
    /\ pipelines = <<NewCursorPipeline>>
    /\ kw_sem = 0
    /\ all_results = <<>>
    /\ dedup = <<>>
    /\ merged_results = <<>>
    /\ mpc = "paging"
    /\ works_left = 0
    /\ IdleScore
    /\ IdlePure
    /\ IdleFetch
    /\ IdleRate

\* One iteration of `while pages_fetched < fetch_pages:`: the request with
\* params["cursor"], its response, the cursor taken from it, and the loop
\* test that follows.
CursorRequest ==
    LET k == pipelines[1]
    IN  /\ mpc = "paging"
        /\ k.pc = "paging"
        /\ \E r \in CursorResponses :
             LET sent == [k EXCEPT !.requested = Append(k.requested, k.cursor),
                                   !.responses = Append(k.responses, r)]
                 breaks == [sent EXCEPT !.pc = "returned"]
                 next == [sent EXCEPT !.cursor = AdvanceCursor(k.cursor, r.next_cursor),
                                      !.pages_fetched = k.pages_fetched + 1]
             IN  pipelines' =
                   <<IF r.outcome # "page" \/ NoNextCursor(r.next_cursor)
                     THEN breaks
                     ELSE IF WhileContinues(next.pages_fetched, CursorPages)
                          THEN next
                          ELSE [next EXCEPT !.pc = "returned"]>>
        /\ mpc' = IF pipelines'[1].pc = "returned" THEN "done" ELSE mpc
        /\ UNCHANGED <<kw_sem, all_results, dedup, merged_results, works_left,
                       scoreVars, pureVars, fetchVars, rateVars>>

NextCursor == CursorRequest

SpecCursor == InitCursor /\ [][NextCursor]_vars

\* The first request uses "*" and every later one the cursor returned by the
\* response just before it.
CursorChain ==
    LET k == pipelines[1]
    IN  /\ Len(k.requested) > 0 => k.requested[1] = "*"
        /\ \A i \in 2..Len(k.requested) :
              /\ k.responses[i - 1].outcome = "page"
              /\ k.requested[i] = k.responses[i - 1].next_cursor

NoCursorRequestedTwice ==
    \A i, j \in 1..Len(pipelines[1].requested) :
        i # j => pipelines[1].requested[i] # pipelines[1].requested[j]

\* The source has handed out only cursors it had not handed out before, and
\* never the initial cursor.
CursorsFresh ==
    LET rs == pipelines[1].responses
    IN  \A i \in 1..Len(rs) :
            rs[i].outcome = "page" =>
                /\ rs[i].next_cursor # "*"
                /\ \A j \in 1..(i - 1) :
                      rs[j].outcome = "page" => rs[j].next_cursor # rs[i].next_cursor

\* C32: the first primary-source request uses the cursor "*", every later
\* request uses exactly the cursor returned by the response just before it,
\* and no cursor value is requested twice.
C32_CursorFollowsResponse == CursorChain /\ NoCursorRequestedTwice

\* What holds: the first request uses "*", every later request uses exactly
\* the cursor returned by the response just before it, and no cursor value is
\* requested twice as long as the source returns fresh cursors.
CursorFollowsResponseFreshOnce ==
    /\ CursorChain
    /\ CursorsFresh => NoCursorRequestedTwice

\* A keyword that used its page budget: "*" and then two cursors the source
\* returned, each requested once.
ThreeCursorsRequested ==
    /\ pipelines[1].pc = "returned"
    /\ Len(pipelines[1].requested) = CursorPages
    /\ pipelines[1].requested[1] = "*"
    /\ pipelines[1].requested[2] \in OpaqueCursors
    /\ pipelines[1].requested[3] \in OpaqueCursors \ {pipelines[1].requested[2]}

(***************************************************************************)
(* Termination of discover_and_process_multi (search_paper.py): the        *)
(* keyword pipelines and the enrichment coroutines under fair scheduling   *)
(***************************************************************************)

\* A run is either the runners of discover_and_process_multi, with the
\* enrichment of a page as one step, or the enrichment coroutines of the pages
\* in progress, alone or competing for the request semaphore.
InitLive == InitMulti \/ InitWide \/ InitFetch \/ InitSem

NextLive == NextMulti \/ NextSem

\* Every HTTP request and every sleep eventually returns, and the event loop
\* runs a coroutine that is ready: a new coroutine is started, a waiter of a
\* semaphore that has a free permit is woken, and the collecting loop goes on
\* once every runner has returned.
LiveFairness ==
    /\ WF_vars(\E k \in BagToSet(tasks) : Call(k))
    /\ WF_vars(\E k \in BagToSet(tasks) : WakeRateLimit(k))
    /\ WF_vars(\E k \in BagToSet(tasks) : Response(k))
    /\ WF_vars(\E k \in BagToSet(tasks) : WakeBackoff(k))
    /\ WF_vars(\E k \in BagToSet(tasks) : WakeSemaphore(k))
    /\ WF_vars(\E k \in DOMAIN pipelines : StartRunner(k))
    /\ WF_vars(\E k \in DOMAIN pipelines : FetchPage(k))
    /\ WF_vars(Deduplicate)

SpecLive == InitLive /\ [][NextLive]_vars /\ LiveFairness

\* Every enrichment coroutine has returned, every keyword pipeline has
\* returned and discover_and_process_multi has its merged list.
AllEnrichmentsDone == \A k \in BagToSet(tasks) : k.pc = "done"
AllPipelinesDone ==
    pipelines # <<>> =>
        /\ \A k \in DOMAIN pipelines : pipelines[k].pc = "returned"
        /\ mpc = "done"
Terminated == AllEnrichmentsDone /\ AllPipelinesDone

\* C35: provided every HTTP request and every sleep eventually returns,
\* discover_and_process_multi terminates: every keyword pipeline and every
\* enrichment fetch eventually completes, and no task stays blocked forever
\* on the keyword semaphore or on the request semaphore.
C35_EventuallyTerminates == <>Terminated

\* A runner waits for the keyword semaphore while its permits are all taken.
RunnerWaitsForKwSem ==
    /\ kw_sem = 0
    /\ \E k \in DOMAIN pipelines : pipelines[k].pc = "pending"
    /\ Cardinality({k \in DOMAIN pipelines : pipelines[k].pc = "running"})
          = KEYWORD_CONCURRENCY_LIMIT

\* An enrichment coroutine that slept in a backoff entered the request
\* semaphore again while another coroutine was waiting for it.
RetriedWhileOthersWait ==
    \E a, b \in BagToSet(tasks) :
        /\ a.pc = "in_flight" /\ Len(a.waits) > 0
        /\ b.pc = "sem_wait"

====
